---- MODULE Spec2Model ----
(***************************************************************************)
(* Weekly stock-market simulator (market-sim.ts) and the game store that   *)
(* drives it (GameStore).                                                   *)
(*                                                                         *)
(* The program computes in IEEE doubles; the model computes in fixed point *)
(* with floor rounding:                                                     *)
(*   money                      whole dollars                               *)
(*   sharesOutstanding          thousands of shares                         *)
(*   price, eps, dps            mills (1/1000 dollar)                       *)
(*   returns, growth, drift,    1e-5                                        *)
(*   interestRate, inflation,                                               *)
(*   vol                                                                    *)
(*   rates of the company       basis points (1e-4)                         *)
(*   sentiment, peAdj           1e-3                                        *)
(*   z-scores                   1e-3                                        *)
(*   uniform draws              the top 16 bits of the 32-bit output        *)
(*                                                                         *)
(* stores  the GameStore objects, by name                                   *)
(* rngs    free-standing RNG objects, by name, with the values returned     *)
(* probe   what the last operation did (not program state)                  *)
(***************************************************************************)
EXTENDS Integers, Sequences, FiniteSets, TLC

VARIABLES stores, rngs, probe

vars == <<stores, rngs, probe>>

(* ------------------------------ helpers -------------------------------- *)

\* The element of a singleton set.  Only({e : x \in {v}}) is e with x standing
\* for the value of v: the way a local of the code is written here when it is
\* read more than once, so that TLC computes it once.
Only(S) == CHOOSE x \in S : TRUE

Max(a, b) == IF a >= b THEN a ELSE b

Min(a, b) == IF a <= b THEN a ELSE b

Abs(a) == IF a < 0 THEN -a ELSE a

\* function clamp(x, lo, hi)
Clamp(x, lo, hi) == Max(lo, Min(hi, x))

\* floor(x * num / den) without forming x * num (den * |num| < 2^31)
Scale(x, num, den) == ((x \div den) * num) + (((x % den) * num) \div den)

\* ceil(x * num / den), for amounts the code keeps strictly positive
ScaleUp(x, num, den) == -Scale(-x, num, den)

\* a quotient too large to matter: stands for a division by 1e-6 or 1e-9
Huge == 100000000

\* floor(a * 10000 / b) for 0 < b < 2 * 10^7, in two steps of 100
RatioBps(a, b) ==
    LET q  == a \div b
        r0 == a % b
        d1 == (r0 * 100) \div b
        r1 == (r0 * 100) % b
    IN  IF q >= 10000 THEN Huge
        ELSE IF q < -10000 THEN -Huge
        ELSE (q * 10000) + (d1 * 100) + ((r1 * 100) \div b)

\* clamp(a / b, lo, hi) in basis points, for b > 0 and -10000 <= lo <= hi <= 10000
ClampRatioBps(a, b, lo, hi) ==
    IF a >= b THEN hi ELSE IF -a >= b THEN lo ELSE Clamp(RatioBps(a, b), lo, hi)

\* Math.round(a / b) for b > 0: halves round up
RoundDiv(a, b) == (2 * a + b) \div (2 * b)

\* Math.ceil(a / b) for b > 0
CeilDiv(a, b) == -((-a) \div b)

RECURSIVE Pow2(_)
Pow2(n) == IF n = 0 THEN 1 ELSE 2 * Pow2(n - 1)

RECURSIVE ISqrtBits(_, _, _)
\* floor(sqrt(n)), one bit at a time from bit b down
ISqrtBits(n, r, b) ==
    IF b < 0 THEN r
    ELSE Only({Only({ISqrtBits(n, next, c) : next \in {IF t * t <= n THEN t ELSE r}})
               : t \in {r + Pow2(b)}, c \in {b - 1}})

\* Math.sqrt, floored (x < 2^30)
ISqrt(x) == Only({ISqrtBits(n, 0, 14) : n \in {x}})

RECURSIVE Gcd(_, _)
Gcd(a, b) == IF b = 0 THEN a ELSE Only({Gcd(b, r) : r \in {a % b}})

\* the quotient a / b as a reduced fraction
Fraction(a, b) == Only({<<a \div g, b \div g>> : g \in {Gcd(a, b)}})

\* a product of two fractions, reduced
Times(f, g) == Fraction(f[1] * g[1], f[2] * g[2])

(* ------------------------- 32-bit word arithmetic ---------------------- *)
(* A word is <<lo, hi>>, two 16-bit halves; TLC's integers are 32-bit      *)
(* signed, so no operator forms a value of 2^31 or more.                   *)

W16 == 65536

\* bit p (a power of two) of a ^ b
XorBit(a, b, p) == (((a \div p) + (b \div p)) % 2) * p

\* a ^ b for 16-bit a, b
Xor16(a, b) ==
    XorBit(a, b, 1) + XorBit(a, b, 2) + XorBit(a, b, 4) + XorBit(a, b, 8)
    + XorBit(a, b, 16) + XorBit(a, b, 32) + XorBit(a, b, 64) + XorBit(a, b, 128)
    + XorBit(a, b, 256) + XorBit(a, b, 512) + XorBit(a, b, 1024) + XorBit(a, b, 2048)
    + XorBit(a, b, 4096) + XorBit(a, b, 8192) + XorBit(a, b, 16384) + XorBit(a, b, 32768)

\* bit p of a | k
OrBit(a, k, p) == IF ((a \div p) % 2) + ((k \div p) % 2) > 0 THEN p ELSE 0

\* a | k for 16-bit a and a constant k < 64
Or16(a, k) ==
    OrBit(a, k, 1) + OrBit(a, k, 2) + OrBit(a, k, 4) + OrBit(a, k, 8)
    + OrBit(a, k, 16) + OrBit(a, k, 32) + ((a \div 64) * 64)

\* a ^ b
Xor32(a, b) ==
    Only({<<Xor16(a0, b0), Xor16(a1, b1)>>
          : a0 \in {a[1]}, a1 \in {a[2]}, b0 \in {b[1]}, b1 \in {b[2]}})

\* a | k for a small constant k < 64
Or32(a, k) == Only({<<Or16(a0, k), a[2]>> : a0 \in {a[1]}})

\* a >>> k for 0 < k < 16
Shr32(a, k) ==
    <<(a[1] \div Pow2(k)) + ((a[2] % Pow2(k)) * Pow2(16 - k)), a[2] \div Pow2(k)>>

\* (a + b) mod 2^32
Add32(a, b) ==
    LET lo == a[1] + b[1]
    IN  <<lo % W16, (a[2] + b[2] + (lo \div W16)) % W16>>

\* (a * b) mod 2^16 for 16-bit a, b
MulMod16(a, b) == (((a % 256) * b) + ((((a \div 256) * b) % 256) * 256)) % W16

\* Math.imul(a, b): the low 32 bits of the product
Imul(a, b) ==
    LET q == (a[1] % 256) * b[1]
        p == (a[1] \div 256) * b[1]
        m == (q \div 256) + p                  \* a.lo * b.lo = 256 * m + q % 256
        lo == (256 * (m % 256)) + (q % 256)
        hi == ((m \div 256) + MulMod16(a[1], b[2]) + MulMod16(a[2], b[1])) % W16
    IN  <<lo, hi>>

(* ------------------------------- RNG ----------------------------------- *)
(* class RNG.  state is the JavaScript number this.state: the seed plus    *)
(* 0x6d2b79f5 per draw, never reduced, held as three base-2^16 limbs       *)
(* <<l0, l1, l2>> (l2 counts the multiples of 2^32).  A seeded generator    *)
(* computes mulberry32 on it.  A scripted generator stands for an           *)
(* arbitrary stream: it advances state in the same way and returns, at      *)
(* each call site, the value its script names for that site.               *)

IncLo == 31221    \* 0x79f5

IncHi == 27947    \* 0x6d2b

\* constructor(seed): this.state = seed >>> 0
NewRNG(seed) == [mode |-> "seeded", state |-> <<seed[1], seed[2], 0>>, script |-> <<>>]

ScriptedRNG(script) == [mode |-> "scripted", state |-> <<0, 0, 0>>, script |-> script]

\* this.state += 0x6d2b79f5
Advance(state) ==
    LET a0 == state[1] + IncLo
        a1 == state[2] + IncHi + (a0 \div W16)
    IN  <<a0 % W16, a1 % W16, state[3] + (a1 \div W16)>>

\* t = Math.imul(t ^ (t >>> 15), t | 1)
Mix1(t) == Only({Imul(x, y) : x \in {Xor32(t, Shr32(t, 15))}, y \in {Or32(t, 1)}})

\* t ^= t + Math.imul(t ^ (t >>> 7), t | 61)
Mix2(t) ==
    Only({Only({Xor32(t, Add32(t, m)) : m \in {Imul(x, y)}})
          : x \in {Xor32(t, Shr32(t, 7))}, y \in {Or32(t, 61)}})

\* the mixing of mulberry32 on the low 32 bits of the state
Mulberry(state) ==
    Only({Only({Only({Xor32(t2, Shr32(t2, 14))
        : t2 \in {Mix2(t1)}})
        : t1 \in {Mix1(t)}})
        : t  \in {<<state[1], state[2]>>}})

\* random(): the 32-bit output word w; the value returned is w / 2^32
Random(rng, site) ==
    Only({[v   |-> IF rng.mode = "seeded" THEN Mulberry(s) ELSE <<1, rng.script[site]>>,
           rng |-> [rng EXCEPT !.state = s]]
          : s \in {Advance(rng.state)}})

\* the top 16 bits of a draw: floor(random() * 65536)
U16(w) == w[2]

RECURSIVE RandomNonZero(_, _)
\* while (u === 0) u = this.random()
RandomNonZero(rng, site) ==
    Only({IF r.v = <<0, 0>> THEN RandomNonZero(r.rng, site) ELSE r
          : r \in {Random(rng, site)}})

\* 1000 * sqrt(-2 ln u) at the middle of u's bucket
Radius(u16) ==
    IF u16 < 1 THEN 4855
    ELSE IF u16 < 16 THEN 4231
    ELSE IF u16 < 256 THEN 3515
    ELSE IF u16 < 4096 THEN 2610
    ELSE <<2176, 1927, 1743, 1593, 1461, 1342, 1231, 1125,
           1021, 918, 813, 703, 583, 444, 252>>[u16 \div 4096]

\* 1000 * cos(2 pi v) at the middle of v's bucket
Cosine(v16) ==
    <<981, 831, 556, 195, -195, -556, -831, -981,
      -981, -831, -556, -195, 195, 556, 831, 981>>[(v16 \div 4096) + 1]

\* normal(mean, std): mean + std * z, z in 1e-3
Normal(rng, site, mean, std) ==
    IF rng.mode = "seeded"
    THEN Only({Only({[v   |-> mean + Scale(std, (Radius(U16(u.v)) * Cosine(U16(v.v)))
                                                \div 1000, 1000),
                      rng |-> v.rng]
               : v \in {RandomNonZero(u.rng, site)}})
               : u \in {RandomNonZero(rng, site)}})
    ELSE [v   |-> mean + Scale(std, rng.script[site], 1000),
          rng |-> [rng EXCEPT !.state = Advance(Advance(rng.state))]]

TnormBudget == 20

RECURSIVE TnormLoopUnclamped(_, _, _, _, _, _, _)
\* a loop that returns its last sample as it is when the budget runs out: a variant
\* of TnormLoop
TnormLoopUnclamped(rng, site, mean, std, lo, hi, tries) ==
    Only({IF n > TnormBudget THEN [v |-> x.v, rng |-> x.rng, tries |-> n]
          ELSE IF x.v < lo \/ x.v > hi
               THEN TnormLoopUnclamped(x.rng, site, mean, std, lo, hi, n)
               ELSE [v |-> x.v, rng |-> x.rng, tries |-> n]
          : x \in {Normal(rng, site, mean, std)}, n \in {tries + 1}})

RECURSIVE TnormLoop(_, _, _, _, _, _, _)
\* do { x = normal(); tries += 1; if (tries > 20) { clamp; break } } while (x < lo || x > hi)
TnormLoop(rng, site, mean, std, lo, hi, tries) ==
    Only({IF n > TnormBudget THEN [v |-> Clamp(x.v, lo, hi), rng |-> x.rng, tries |-> n]
          ELSE IF x.v < lo \/ x.v > hi
               THEN TnormLoop(x.rng, site, mean, std, lo, hi, n)
               ELSE [v |-> x.v, rng |-> x.rng, tries |-> n]
          : x \in {Normal(rng, site, mean, std)}, n \in {tries + 1}})

\* tnorm(mean, std, lo, hi)
Tnorm(rng, site, mean, std, lo, hi) == TnormLoop(rng, site, mean, std, lo, hi, 0)

\* chance(p): random() < p, p in percent
Chance(rng, site, p) ==
    Only({[v |-> U16(r.v) * 100 < p * W16, rng |-> r.rng] : r \in {Random(rng, site)}})

\* pick(arr): arr[floor(random() * arr.length)]
Pick(rng, site, arr) ==
    Only({[v |-> arr[((U16(r.v) * Len(arr)) \div W16) + 1], rng |-> r.rng]
          : r \in {Random(rng, site)}})

(* --------------------------- Macro and sector --------------------------- *)

\* MarketEnv constructor defaults
NewMarket == [week |-> 0, interestRate |-> 3000, inflation |-> 2000, sentiment |-> 0, vol |-> 1000]

\* MarketEnv.basePE(), times 100
BasePE(m) ==
    LET r == Clamp(m.interestRate, 0, 12000)
    IN  Clamp(3000 - Scale(r - 2000, 18, 100), 1000, 3400)

\* MarketEnv.expectedEquityReturnWeekly()
ExpectedEquityReturnWeekly(m) ==
    Clamp(100 - Scale(m.interestRate - 2000, 25, 4800) + Scale(m.sentiment, 6, 100), 10, 180)

\* an update whose macro shock moves the interest rate without the clamp: a variant
\* of MarketUpdate
MarketUpdateShockUnclamped(m, rng) ==
    Only({Only({Only({Only({
        LET s1  == Clamp(Scale(m.sentiment, 95, 100) + n.v, -1000, 1000)
            ir1 == Clamp(m.interestRate + dr.v, 0, 15000)
            in1 == Clamp(m.inflation + di.v, -2000, 15000)
        IN  IF ch.v
            THEN Only({[market |-> [week         |-> m.week + 1,
                                    sentiment    |-> Clamp(s1 + sh.v, -1000, 1000),
                                    interestRate |-> ir1 + (20 * sh.v),
                                    inflation    |-> in1,
                                    vol          |-> Clamp(m.vol + (2 * Abs(sh.v)), 600, 4000)],
                        rng |-> sh.rng]
                       : sh \in {Tnorm(ch.rng, "mShock", 0, 80, -200, 200)}})
            ELSE [market |-> [week         |-> m.week + 1,
                              sentiment    |-> s1,
                              interestRate |-> ir1,
                              inflation    |-> in1,
                              vol          |-> Clamp(Scale(m.vol, 995, 1000), 600, 3000)],
                  rng |-> ch.rng]
        : ch \in {Chance(di.rng, "mShockP", 1)}})
        : di \in {Normal(dr.rng, "mInfl", 0, 50)}})
        : dr \in {Normal(n.rng, "mRate", 0, 50)}})
        : n  \in {Tnorm(rng, "mSent", 0, 20, -80, 80)}})

\* MarketEnv.update(); the generator is the store's (the same object)
MarketUpdate(m, rng) ==
    Only({Only({Only({Only({
        LET s1  == Clamp(Scale(m.sentiment, 95, 100) + n.v, -1000, 1000)
            ir1 == Clamp(m.interestRate + dr.v, 0, 15000)
            in1 == Clamp(m.inflation + di.v, -2000, 15000)
        IN  IF ch.v
            THEN Only({[market |-> [week         |-> m.week + 1,
                                    sentiment    |-> Clamp(s1 + sh.v, -1000, 1000),
                                    interestRate |-> Clamp(ir1 + (20 * sh.v), 0, 20000),
                                    inflation    |-> in1,
                                    vol          |-> Clamp(m.vol + (2 * Abs(sh.v)), 600, 4000)],
                        rng |-> sh.rng]
                       : sh \in {Tnorm(ch.rng, "mShock", 0, 80, -200, 200)}})
            ELSE [market |-> [week         |-> m.week + 1,
                              sentiment    |-> s1,
                              interestRate |-> ir1,
                              inflation    |-> in1,
                              vol          |-> Clamp(Scale(m.vol, 995, 1000), 600, 3000)],
                  rng |-> ch.rng]
        : ch \in {Chance(di.rng, "mShockP", 1)}})
        : di \in {Normal(dr.rng, "mInfl", 0, 50)}})
        : dr \in {Normal(n.rng, "mRate", 0, 50)}})
        : n  \in {Tnorm(rng, "mSent", 0, 20, -80, 80)}})

SectorNames ==
    <<"Technology", "Healthcare", "Energy", "Utilities", "Consumer",
      "Industrials", "Financials", "Materials", "Communication", "RealEstate">>

\* new SectorIndex(name, init)
NewSector(name, growth, peAdj) ==
    [name |-> name, baselineGrowth |-> growth, vol |-> 1200, sentiment |-> 0, peAdj |-> peAdj]

\* GameStore.buildSectors()
BuildSectors ==
    <<NewSector("Technology", 300, 1150), NewSector("Healthcare", 230, 1060),
      NewSector("Energy", 170, 950), NewSector("Utilities", 120, 900),
      NewSector("Consumer", 200, 1020), NewSector("Industrials", 180, 980),
      NewSector("Financials", 190, 960), NewSector("Materials", 160, 940),
      NewSector("Communication", 210, 1030), NewSector("RealEstate", 150, 920)>>

\* SectorIndex.update(market, rng)
SectorUpdate(s, m, rng) ==
    Only({Only({Only({
        LET s1 == Clamp(Scale(s.sentiment, 9, 10) + Scale(m.sentiment, 1, 10) + n.v,
                        -1000, 1000)
        IN  [sector |-> [name           |-> s.name,
                         sentiment      |-> s1,
                         baselineGrowth |-> Clamp(s.baselineGrowth + g.v
                                                  + (m.inflation \div 4800), -500, 1000),
                         peAdj          |-> Clamp(1000 + Scale(s1, 25, 100), 750, 1350),
                         vol            |-> Clamp(s.vol + v.v, 600, 3000)],
             rng |-> v.rng]
        : v \in {Normal(g.rng, "sVol", 0, 100)}})
        : g \in {Normal(n.rng, "sGrowth", 0, 40)}})
        : n \in {Tnorm(rng, "sSent", 0, 20, -80, 80)}})

RECURSIVE SectorsUpdate(_, _, _, _)
\* for (const s of sectorsArr) s.update(this.market, this.rng)
SectorsUpdate(secs, m, rng, i) ==
    IF i > Len(secs) THEN [sectors |-> secs, rng |-> rng]
    ELSE Only({Only({SectorsUpdate(next, m, u.rng, j)
               : next \in {[secs EXCEPT ![i] = u.sector]}, j \in {i + 1}})
               : u \in {SectorUpdate(secs[i], m, rng)}})

(* ------------------------------- Company -------------------------------- *)

NoSplit == <<1, 1>>

PriceFloor == 500       \* 0.5 dollars, in mills

EventFloor == 50        \* 0.05 dollars, in mills

SharesFloor == 1000     \* 1,000,000 shares, in thousands

BaseVolOf(risk) == IF risk = "low" THEN 1000 ELSE IF risk = "medium" THEN 2000 ELSE 4500

\* Company.totalAssets
TotalAssets(c) == c.assets + c.cash

\* Company.equity
Equity(c) == TotalAssets(c) - c.debt

\* Company.interestRateSpread, in basis points
InterestRateSpread(c) ==
    IF c.riskProfile = "low" THEN 100 ELSE IF c.riskProfile = "medium" THEN 300 ELSE 600

\* Company.currentNetIncomeEstimate()
CurrentNetIncomeEstimate(c) ==
    LET rnd          == Scale(c.revenue, c.rAndDRate, 10000)
        depreciation == Scale(c.assets, c.depreciationRate, 10000)
        interest     == Scale(c.debt, c.lastBorrowRate, 480000)
        pretax       == c.revenue - c.expenses - rnd - depreciation - interest
        tax          == Scale(Max(0, pretax), c.taxRate, 10000)
    IN  pretax - tax

\* Company.margin, in basis points
Margin(c) ==
    IF c.revenue > 0
    THEN Only({RatioBps(ni, c.revenue) : ni \in {CurrentNetIncomeEstimate(c)}})
    ELSE 0

\* Company.eps, in mills
Eps(c) ==
    IF c.sharesOutstanding > 0 THEN CurrentNetIncomeEstimate(c) \div c.sharesOutstanding ELSE 0

\* Company.salesPerShare, in mills
SalesPerShare(c) == IF c.sharesOutstanding > 0 THEN c.revenue \div c.sharesOutstanding ELSE 0

\* the null of pe and peTTM (a ratio is never negative)
Null == -1

\* price / x for a per-share amount x in mills, times 100; x = 0 stands for 1e-9
PriceOver(price, x) == IF x = 0 THEN Huge ELSE RatioBps(price, x) \div 100

\* Company.pe, times 100, or null
Pe(c) == Only({IF e > 0 THEN PriceOver(c.price, e) ELSE Null : e \in {Eps(c)}})

\* Company.ps, times 100
Ps(c) == Only({PriceOver(c.price, s) : s \in {SalesPerShare(c)}})

RECURSIVE SumFrom(_, _, _, _)
\* for (let i = start; i < history.length; i++) sum += history[i][key], the range
\* summed in two halves
SumFrom(h, key, i, end) ==
    IF i > end THEN 0
    ELSE IF i = end THEN h[i][key]
    ELSE Only({SumFrom(h, key, i, mid) + SumFrom(h, key, mid + 1, end)
               : mid \in {(i + end) \div 2}})

TtmWeeks == 48

\* Company.sumHistory(key, weeks)
SumHistory(c, key, weeks) ==
    IF Len(c.history) = 0 THEN 0
    ELSE Only({SumFrom(h, key, Max(0, Len(h) - weeks) + 1, Len(h)) : h \in {c.history}})

\* Company.ttmRevenue
TtmRevenue(c) ==
    Only({IF sum # 0 THEN sum ELSE c.revenue * TtmWeeks
          : sum \in {SumHistory(c, "revenue", TtmWeeks)}})

\* Company.ttmNetIncome
TtmNetIncome(c) ==
    Only({IF sum # 0 THEN sum ELSE CurrentNetIncomeEstimate(c) * TtmWeeks
          : sum \in {SumHistory(c, "netIncome", TtmWeeks)}})

\* Company.ttmEPS, in mills
TtmEPS(c) == IF c.sharesOutstanding > 0 THEN TtmNetIncome(c) \div c.sharesOutstanding ELSE 0

\* Company.ttmSalesPerShare, in mills
TtmSalesPerShare(c) ==
    IF c.sharesOutstanding > 0 THEN TtmRevenue(c) \div c.sharesOutstanding ELSE 0

\* Company.peTTM, times 100, or null
PeTTM(c) == Only({IF e > 0 THEN PriceOver(c.price, e) ELSE Null : e \in {TtmEPS(c)}})

\* Company.psTTM, times 100
PsTTM(c) == Only({PriceOver(c.price, s) : s \in {TtmSalesPerShare(c)}})

\* Company.ttmMargin, in basis points
TtmMargin(c) ==
    Only({IF rev > 0 THEN RatioBps(ni, rev) ELSE 0
          : rev \in {TtmRevenue(c)}, ni \in {TtmNetIncome(c)}})

\* a division by zero
Infinity == Huge + 1

\* debt / equity without the floor of 1e-6 under the equity: a variant of DebtToEquity
DebtToEquityUnguarded(c) ==
    IF Equity(c) = 0 THEN Infinity
    ELSE IF Equity(c) < 0 THEN -(RatioBps(c.debt, -Equity(c)) \div 100)
    ELSE RatioBps(c.debt, Equity(c)) \div 100

\* Company.debtToEquity, times 100: the equity is floored at 1e-6
DebtToEquity(c) ==
    IF c.debt = 0 THEN 0
    ELSE IF Equity(c) <= 0 THEN Huge
    ELSE RatioBps(c.debt, Equity(c)) \div 100

\* Company.snapshot(week)
Snapshot(c, week) ==
    [week      |-> week,
     price     |-> c.price,
     revenue   |-> c.revenue,
     expenses  |-> c.expenses,
     eps       |-> Eps(c),
     netIncome |-> CurrentNetIncomeEstimate(c),
     cash      |-> c.cash,
     debt      |-> c.debt,
     assets    |-> TotalAssets(c),
     equity    |-> Equity(c),
     shares    |-> c.sharesOutstanding,
     pe        |-> Pe(c),
     ps        |-> Ps(c),
     sentiment |-> c.sentiment]

\* Company constructor
NewCompany(init) ==
    LET c0 == [ticker |-> init.ticker, sector |-> init.sector,
               riskProfile |-> init.riskProfile, stage |-> init.stage,
               betaMarket |-> IF init.riskProfile = "low" THEN 7
                              ELSE IF init.riskProfile = "medium" THEN 10 ELSE 13,
               betaSector |-> IF init.riskProfile = "low" THEN 8
                              ELSE IF init.riskProfile = "medium" THEN 10 ELSE 12,
               revenue |-> init.revenue, expenses |-> init.expenses,
               rAndDRate |-> init.rAndDRate, capexRate |-> init.capexRate,
               depreciationRate |-> 20, taxRate |-> 2100,
               cash |-> init.cash, debt |-> init.debt, assets |-> Max(0, init.assets),
               sharesOutstanding |-> init.shares,
               price |-> 100000, baseDrift |-> 0,
               baseVol |-> BaseVolOf(init.riskProfile),
               sentiment |-> Clamp(init.sentiment, -1000, 1000),
               payoutRatio |-> Clamp(init.payoutRatio, 0, 9000),
               targetYield |-> init.targetYield,
               buybackRate |-> 2500,
               history |-> <<>>, quarterNetIncomeAcc |-> 0, negativeQuarterStreak |-> 0,
               activeEffects |-> <<>>, isBankrupt |-> FALSE, lowPriceStreak |-> 0,
               lastBorrowRate |-> 800, pendingSplitFactor |-> NoSplit]
    IN  Only({[c EXCEPT !.baseDrift = 100 + (Margin(c) \div 10)] : c \in {c0}})

\* an Event with every optional field absent
NoEvent ==
    [type |-> "none", hasShock |-> FALSE, priceShock |-> 0, cashDelta |-> 0, debtDelta |-> 0,
     sharesDelta |-> 0, revenueDeltaPct |-> 0, expenseDeltaPct |-> 0, driftDelta |-> 0,
     multipleDelta |-> 0, sentimentDelta |-> 0, durationWeeks |-> 0]

\* Company.applyEvent(ev, currentWeek); priceShock and the Pct fields in basis points
ApplyEvent(c, ev, currentWeek) ==
    [c EXCEPT
        !.revenue  = IF ev.revenueDeltaPct # 0
                     THEN Max(0, @ + Scale(@, ev.revenueDeltaPct, 10000)) ELSE @,
        !.expenses = IF ev.expenseDeltaPct # 0
                     THEN Max(0, @ + Scale(@, ev.expenseDeltaPct, 10000)) ELSE @,
        !.cash     = IF ev.cashDelta # 0 THEN @ + ev.cashDelta ELSE @,
        !.debt     = IF ev.debtDelta # 0 THEN Max(0, @ + ev.debtDelta) ELSE @,
        !.sharesOutstanding = IF ev.sharesDelta # 0 THEN Max(1, @ + ev.sharesDelta) ELSE @,
        !.price    = IF ev.hasShock
                     THEN Max(EventFloor, @ + Scale(@, ev.priceShock, 10000)) ELSE @,
        !.activeEffects =
            IF ev.driftDelta # 0 \/ ev.multipleDelta # 0 \/ ev.sentimentDelta # 0
            THEN Append(@, [untilWeek      |-> IF ev.durationWeeks # 0
                                               THEN currentWeek + ev.durationWeeks
                                               ELSE currentWeek + 12,
                            driftDelta     |-> ev.driftDelta,
                            multipleDelta  |-> ev.multipleDelta,
                            sentimentDelta |-> ev.sentimentDelta])
            ELSE @]

\* an event that carries only a price shock
ShockEvent(type, shock) == [NoEvent EXCEPT !.type = type, !.hasShock = TRUE, !.priceShock = shock]

(* --------------------------- Company.simulateWeek ----------------------- *)
(* The tick is a pipeline of stages over a frame: the company, the          *)
(* generator, the arguments, the locals that later stages read, and obs,    *)
(* a record of what the tick did (it is not program state).                 *)

NoObs ==
    [bankruptAtCall |-> FALSE, adjustments |-> <<>>, events |-> <<>>,
     distressRan |-> FALSE, cashAtDistress |-> 0, debtAtDistress |-> 0,
     cashAfterRaise |-> 0, debtAfterRaise |-> 0, raiseCapped |-> FALSE,
     priceBeforeFloor |-> 0, bandPrice |-> 0, becameBankrupt |-> FALSE,
     leverageAtCheck |-> 0, streakAtCheck |-> 0, cashAtCheck |-> 0, minCashAtCheck |-> 0,
     netIncome |-> 0, installed |-> <<>>, driftAdj |-> 0, multipleAdj |-> 0,
     sentimentAdj |-> 0, streakAtBell |-> 0,
     buyback |-> <<>>]

\* a share count without the floor: a variant of FloorShares
RawShares(shares) == shares

\* Math.max(1_000_000, shares), in thousands
FloorShares(shares) == Max(SharesFloor, shares)

\* price * sharesOutstanding, in thousands of dollars
MarketCap(price, shares) == Scale(shares, price, 1000)

\* one split-like adjustment of a tick
Adjustment(kind, r, p0, s0, p1, s1) ==
    [kind |-> kind, r |-> r, priceBefore |-> p0, sharesBefore |-> s0,
     priceAfter |-> p1, sharesAfter |-> s1]

\* lastRetForSent / lastRet, in basis points
LastRet(c) ==
    IF Len(c.history) > 0
    THEN Only({RatioBps(c.price - last, Max(1000, last))
               : last \in {c.history[Len(c.history)].price}})
    ELSE 0

\* 0) sentiment mean reversion with macro and sector bleed
Sentiment(f) ==
    Only({[f EXCEPT !.rng = n.rng,
                    !.c.sentiment =
                        Clamp(Scale(@, 9, 10) + Scale(f.market.sentiment, 5, 100)
                              + Scale(f.sector.sentiment, 5, 100)
                              + (Clamp(LastRet(f.c), -500, 500) \div 50) + n.v,
                              -1000, 1000)]
          : n \in {Tnorm(f.rng, "cSent", 0, 20, -80, 80)}})

StageGrowth(stage) ==
    IF stage = "startup" THEN 320 ELSE IF stage = "growth" THEN 200
    ELSE IF stage = "mature" THEN 50 ELSE -50

\* 1) fundamentals evolve; cash flows
Fundamentals(f) ==
    Only({Only({
    LET c        == f.c
        revMean  == f.sector.baselineGrowth + StageGrowth(c.stage)
                    + Scale(f.market.sentiment, 7, 100) + Scale(c.sentiment, 8, 100)
        revenue  == Max(0, c.revenue + Scale(c.revenue, revMean + revShock.v, 100000))
        expMean  == Scale(revMean, 7, 10) + Scale(f.market.inflation, 8, 480)
        expenses == Max(0, c.expenses + Scale(c.expenses, expMean + expShock.v, 100000))
        rndSpend == Scale(revenue, c.rAndDRate, 10000)
        depreciation == Scale(c.assets, c.depreciationRate, 10000)
        effectiveBorrowRate ==
            Clamp((f.market.interestRate \div 10) + InterestRateSpread(c), 0, 3500)
        interest == Scale(c.debt, effectiveBorrowRate, 480000)
        pretaxIncome == revenue - expenses - rndSpend - depreciation - interest
        taxes    == Scale(Max(0, pretaxIncome), c.taxRate, 10000)
        netIncome == pretaxIncome - taxes
        capex    == Scale(revenue, c.capexRate, 10000)
    IN  [f EXCEPT !.rng = expShock.rng,
                  !.netIncome = netIncome,
                  !.obs.netIncome = netIncome,
                  !.c.revenue = revenue,
                  !.c.expenses = expenses,
                  !.c.lastBorrowRate = effectiveBorrowRate,
                  !.c.quarterNetIncomeAcc = @ + netIncome,
                  !.c.assets = Max(0, @ + capex - depreciation),
                  !.c.cash = @ + netIncome + depreciation - capex]
        : expShock \in {Normal(revShock.rng, "cExp", 0, 300)}})
        : revShock \in {Normal(f.rng, "cRev", 0, 300)}})

RECURSIVE SumEffects(_, _, _, _)
SumEffects(effects, key, week, i) ==
    IF i > Len(effects) THEN 0
    ELSE (IF week <= effects[i].untilWeek THEN effects[i][key] ELSE 0)
         + Only({SumEffects(effects, key, week, j) : j \in {i + 1}})

\* the effects summed and the list left as it is: a variant of Effects
EffectsUnpruned(f) ==
    LET c == f.c
        sentimentAdj == SumEffects(c.activeEffects, "sentimentDelta", f.week, 1)
    IN  [f EXCEPT !.driftAdj = SumEffects(c.activeEffects, "driftDelta", f.week, 1),
                  !.multipleAdj = SumEffects(c.activeEffects, "multipleDelta", f.week, 1),
                  !.c.sentiment =
                      IF sentimentAdj # 0
                      THEN Clamp(@ + Clamp(sentimentAdj, -500, 500), -1000, 1000)
                      ELSE @]

\* the effects with an entry dropped one week early, summed and kept while
\* week < untilWeek: a variant of Effects
EffectsOneWeekShort(f) ==
    LET c == f.c
        sentimentAdj == SumEffects(c.activeEffects, "sentimentDelta", f.week + 1, 1)
        pruned == SelectSeq(c.activeEffects, LAMBDA e : f.week < e.untilWeek)
    IN  [f EXCEPT !.driftAdj = SumEffects(c.activeEffects, "driftDelta", f.week + 1, 1),
                  !.multipleAdj = SumEffects(c.activeEffects, "multipleDelta", f.week + 1, 1),
                  !.c.activeEffects = pruned,
                  !.c.sentiment =
                      IF sentimentAdj # 0
                      THEN Clamp(@ + Clamp(sentimentAdj, -500, 500), -1000, 1000)
                      ELSE @,
                  !.obs.driftAdj = SumEffects(c.activeEffects, "driftDelta", f.week + 1, 1),
                  !.obs.multipleAdj = SumEffects(c.activeEffects, "multipleDelta", f.week + 1, 1),
                  !.obs.sentimentAdj = sentimentAdj]

\* 2) active effects
Effects(f) ==
    LET c == f.c
        sentimentAdj == SumEffects(c.activeEffects, "sentimentDelta", f.week, 1)
        pruned == SelectSeq(c.activeEffects, LAMBDA e : f.week <= e.untilWeek)
    IN  [f EXCEPT !.driftAdj = SumEffects(c.activeEffects, "driftDelta", f.week, 1),
                  !.multipleAdj = SumEffects(c.activeEffects, "multipleDelta", f.week, 1),
                  !.c.activeEffects = pruned,
                  !.c.sentiment =
                      IF sentimentAdj # 0
                      THEN Clamp(@ + Clamp(sentimentAdj, -500, 500), -1000, 1000)
                      ELSE @,
                  !.obs.driftAdj = SumEffects(c.activeEffects, "driftDelta", f.week, 1),
                  !.obs.multipleAdj = SumEffects(c.activeEffects, "multipleDelta", f.week, 1),
                  !.obs.sentimentAdj = sentimentAdj]

\* 3) valuation targets: targetPE and targetPS times 100, fundamental in mills
Valuation(f) ==
    Only({
    LET c == f.c
        basePE == Scale(BasePE(f.market), f.sector.peAdj, 1000)
        stagePEAdj == IF c.stage = "startup" THEN 120 ELSE IF c.stage = "growth" THEN 110
                      ELSE IF c.stage = "mature" THEN 100 ELSE 85
        riskPEAdj == IF c.riskProfile = "low" THEN 105
                     ELSE IF c.riskProfile = "medium" THEN 100 ELSE 95
        sentPEAdj == 1000 + Scale(Clamp(c.sentiment, -1000, 1000), 25, 100)
        targetPE == Clamp(Scale(Scale(Scale(Scale(basePE, stagePEAdj, 100), riskPEAdj, 100),
                                      sentPEAdj, 1000), 100 + f.multipleAdj, 100),
                          1200, 4500)
        stagePS == IF c.stage = "startup" THEN 60 ELSE IF c.stage = "growth" THEN 40
                   ELSE IF c.stage = "mature" THEN 20 ELSE 14
        ratePSAdj == Clamp(1600 - Scale(f.market.interestRate, 8, 100), 800, 1600)
        targetPS == Clamp(Scale(Scale(Scale(280, stagePS, 10), ratePSAdj, 1000),
                                100 + f.multipleAdj, 100),
                          100, 1400)
    IN  [f EXCEPT !.targetPE = targetPE,
                  !.fundamental =
                      IF epsTTM > 0
                      THEN Scale(Scale(epsTTM, targetPE, 100), 7, 10)
                           + Scale(Scale(spsTTM, targetPS, 100), 3, 10)
                      ELSE Scale(spsTTM, targetPS, 100)]
        : epsTTM \in {TtmEPS(f.c)}, spsTTM \in {TtmSalesPerShare(f.c)}})

\* history[i].revenue and netIncome summed over the year before the last one
PrevYearMargin(c) ==
    Only({Only({IF prevRev > 0 THEN RatioBps(prevNi, prevRev) ELSE 0
        : prevRev \in {SumFrom(h, "revenue", Len(h) - 95, Len(h) - 48)},
          prevNi  \in {SumFrom(h, "netIncome", Len(h) - 95, Len(h) - 48)}})
        : h \in {c.history}})

\* 4) price dynamics with mean reversion, momentum and the quality/value tilts
PriceDynamics(f) ==
    Only({Only({Only({Only({
    LET c == f.c
        reversion == Scale(ClampRatioBps(f.fundamental - c.price, Max(1000, c.price),
                                         -2500, 2500), 6, 10)
        momentum == Scale(LastRet(c), 12, 100)
        baseDrift == 8 + Scale(Margin(c), 4, 100) + f.driftAdj
        leverageBump == Max(0, DebtToEquity(c) - 100) * 3
        unprofitableBump == IF f.netIncome < 0 THEN 400 ELSE 0
        baseVol == Clamp(BaseVolOf(c.riskProfile) + leverageBump + unprofitableBump,
                         800, 12000)
        quality == Clamp(ttmMargin, -2000, 4000)
        rev13 == IF Len(c.history) > 0
                 THEN c.history[Max(0, Len(c.history) - 13) + 1].revenue
                 ELSE c.revenue
        growth == IF rev13 > 0 THEN ClampRatioBps(c.revenue - rev13, rev13, -5000, 5000)
                  ELSE IF c.revenue > 0 THEN 5000 ELSE 0
        discountSignal == IF peNow # Null
                          THEN ClampRatioBps(f.targetPE - peNow, f.targetPE, -6000, 6000)
                          ELSE 0
        marginTrend == IF Len(c.history) >= 96
                       THEN Clamp(ttmMargin - PrevYearMargin(c), -2000, 2000)
                       ELSE 0
        qualityAlpha == Scale(quality, 12, 1000) + Scale(growth, 12, 1000)
        valueAlpha == Scale(discountSignal, 12, 1000)
        trendAlpha == Scale(marginTrend, 8, 1000)
        retRaw == baseDrift + ExpectedEquityReturnWeekly(f.market)
                  + Scale(marketShock.v, c.betaMarket, 10)
                  + Scale(sectorShock.v, c.betaSector, 10)
                  + idioShock.v + reversion + momentum
                  + qualityAlpha + valueAlpha + trendAlpha
        ret == Clamp(retRaw, -10000, 10000)
    IN  [f EXCEPT !.rng = idioShock.rng,
                  !.c.baseDrift = baseDrift,
                  !.c.baseVol = baseVol,
                  !.c.price = Max(PriceFloor, c.price + Scale(c.price, ret, 100000))]
        : idioShock \in {Normal(sectorShock.rng, "cIdio", 0, f.c.baseVol)}})
        : sectorShock \in {Normal(marketShock.rng, "cSec", Scale(f.sector.sentiment, 2, 10),
                                  f.sector.vol)}})
        : marketShock \in {Normal(f.rng, "cMkt", Scale(f.market.sentiment, 2, 10),
                                  f.market.vol)}})
        : ttmMargin \in {TtmMargin(f.c)}, peNow \in {PeTTM(f.c)}})

BandLow == 3000      \* 3 dollars

BandHigh == 300000   \* 300 dollars

\* the band normalization with its ratios rounded down instead of up: a variant of
\* BandNormalize
BandNormalizeRoundedDown(f) ==
    LET c == f.c
        rLow  == Max(1, BandLow \div c.price)
        rHigh == Max(1, c.price \div BandHigh)
        c1 == IF c.price < BandLow
              THEN [c EXCEPT !.price = c.price * rLow,
                             !.sharesOutstanding =
                                 FloorShares(RoundDiv(c.sharesOutstanding, rLow))]
              ELSE IF c.price > BandHigh
              THEN [c EXCEPT !.price = Max(1000, 1000 * RoundDiv(c.price, 1000 * rHigh)),
                             !.sharesOutstanding = c.sharesOutstanding * rHigh]
              ELSE c
        adj == IF c.price < BandLow
               THEN <<Adjustment("bandLow", rLow, c.price, c.sharesOutstanding,
                                 c1.price, c1.sharesOutstanding)>>
               ELSE IF c.price > BandHigh
               THEN <<Adjustment("bandHigh", rHigh, c.price, c.sharesOutstanding,
                                 c1.price, c1.sharesOutstanding)>>
               ELSE <<>>
    IN  [f EXCEPT !.c = [c1 EXCEPT !.lowPriceStreak = IF c1.price < 1000 THEN @ + 1 ELSE 0],
                  !.obs.adjustments = @ \o adj,
                  !.obs.bandPrice = c1.price]

\* the band normalization with the low-price streak measured on the price before the
\* band: a variant of BandNormalize
BandNormalizeStreakFirst(f) ==
    LET c == f.c
        rLow  == CeilDiv(BandLow, c.price)
        rHigh == CeilDiv(c.price, BandHigh)
        c1 == IF c.price < BandLow
              THEN [c EXCEPT !.price = c.price * rLow,
                             !.sharesOutstanding =
                                 FloorShares(RoundDiv(c.sharesOutstanding, rLow))]
              ELSE IF c.price > BandHigh
              THEN [c EXCEPT !.price = Max(1000, 1000 * RoundDiv(c.price, 1000 * rHigh)),
                             !.sharesOutstanding = c.sharesOutstanding * rHigh]
              ELSE c
        adj == IF c.price < BandLow
               THEN <<Adjustment("bandLow", rLow, c.price, c.sharesOutstanding,
                                 c1.price, c1.sharesOutstanding)>>
               ELSE IF c.price > BandHigh
               THEN <<Adjustment("bandHigh", rHigh, c.price, c.sharesOutstanding,
                                 c1.price, c1.sharesOutstanding)>>
               ELSE <<>>
    IN  [f EXCEPT !.c = [c1 EXCEPT !.lowPriceStreak = IF c.price < 1000 THEN @ + 1 ELSE 0],
                  !.obs.adjustments = @ \o adj,
                  !.obs.bandPrice = c1.price]

\* normalize price into a retail-looking band by adjusting shares (implicit splits);
\* then the low-price tracking for the reverse split
BandNormalize(f) ==
    LET c == f.c
        rLow  == CeilDiv(BandLow, c.price)
        rHigh == CeilDiv(c.price, BandHigh)
        c1 == IF c.price < BandLow
              THEN [c EXCEPT !.price = c.price * rLow,
                             !.sharesOutstanding =
                                 FloorShares(RoundDiv(c.sharesOutstanding, rLow))]
              ELSE IF c.price > BandHigh
              THEN [c EXCEPT !.price = Max(1000, 1000 * RoundDiv(c.price, 1000 * rHigh)),
                             !.sharesOutstanding = c.sharesOutstanding * rHigh]
              ELSE c
        adj == IF c.price < BandLow
               THEN <<Adjustment("bandLow", rLow, c.price, c.sharesOutstanding,
                                 c1.price, c1.sharesOutstanding)>>
               ELSE IF c.price > BandHigh
               THEN <<Adjustment("bandHigh", rHigh, c.price, c.sharesOutstanding,
                                 c1.price, c1.sharesOutstanding)>>
               ELSE <<>>
    IN  [f EXCEPT !.c = [c1 EXCEPT !.lowPriceStreak = IF c1.price < 1000 THEN @ + 1 ELSE 0],
                  !.obs.adjustments = @ \o adj,
                  !.obs.bandPrice = c1.price]

\* applyEvent from inside the tick, noting the event's type
Emit(frame, event) ==
    Only({Only({[f EXCEPT !.c = after, !.obs.events = Append(@, ev.type),
                          !.obs.installed =
                              @ \o [n \in 1..(Len(after.activeEffects) - Len(f.c.activeEffects))
                                      |-> [type |-> ev.type, durationWeeks |-> ev.durationWeeks,
                                           effect |-> after.activeEffects[
                                                          Len(f.c.activeEffects) + n]]]]
                : after \in {ApplyEvent(f.c, ev, f.week)}})
          : f \in {frame}, ev \in {event}})

\* the probability, in percent, of the coin of each kind of quarterly event
QuarterlyCoin(u) ==
    IF u < 15 * W16 THEN 55 ELSE IF u < 25 * W16 THEN 60 ELSE IF u < 32 * W16 THEN 40 ELSE 50

\* the price shock of each kind of quarterly event, in basis points
QuarterlyShock(u, coin) ==
    IF u < 36 * W16
    THEN Normal(coin.rng, "qShock",
                IF u < 15 * W16 THEN (IF coin.v THEN 300 ELSE -400)
                ELSE IF u < 25 * W16 THEN (IF coin.v THEN 600 ELSE -700)
                ELSE IF u < 32 * W16 THEN -800
                ELSE (IF coin.v THEN -300 ELSE 1200),
                IF u < 15 * W16 THEN (IF coin.v THEN 200 ELSE 300)
                ELSE IF u < 25 * W16 THEN (IF coin.v THEN 400 ELSE 500)
                ELSE IF u < 32 * W16 THEN 500
                ELSE (IF coin.v THEN 200 ELSE 600))
    ELSE [v |-> IF coin.v THEN 200 ELSE -300, rng |-> coin.rng]

\* maybeQuarterlyEvents(week, rng)
MaybeQuarterlyEvents(f) ==
    Only({Only({Only({
    LET u  == U16(r.v) * 100
        ev == IF u < 15 * W16
              THEN [ShockEvent("guidance", shock.v) EXCEPT
                        !.driftDelta = IF coin.v THEN 50 ELSE -50,
                        !.multipleDelta = IF coin.v THEN 5 ELSE -5,
                        !.sentimentDelta = IF coin.v THEN 200 ELSE -200,
                        !.durationWeeks = 12]
              ELSE IF u < 25 * W16
              THEN [ShockEvent("product", shock.v) EXCEPT
                        !.revenueDeltaPct = IF coin.v THEN 400 ELSE -300,
                        !.expenseDeltaPct = 100,
                        !.driftDelta = IF coin.v THEN 80 ELSE -80,
                        !.durationWeeks = 24]
              ELSE IF u < 32 * W16
              THEN [ShockEvent(IF coin.v THEN "scandal" ELSE "lawsuit", shock.v) EXCEPT
                        !.expenseDeltaPct = 300,
                        !.multipleDelta = -8,
                        !.sentimentDelta = -400,
                        !.durationWeeks = 24]
              ELSE IF u < 36 * W16
              THEN [ShockEvent("merger", shock.v) EXCEPT
                        !.multipleDelta = IF coin.v THEN -2 ELSE 5,
                        !.durationWeeks = 12]
              ELSE [ShockEvent(IF coin.v THEN "upgrade" ELSE "downgrade", shock.v) EXCEPT
                        !.multipleDelta = IF coin.v THEN 3 ELSE -4,
                        !.durationWeeks = 12]
    IN  IF u < 40 * W16
        THEN Emit([f EXCEPT !.rng = shock.rng], ev)
        ELSE [f EXCEPT !.rng = r.rng]
        : shock \in {QuarterlyShock(U16(r.v) * 100, coin)}})
        : coin \in {Chance(r.rng, "qCoin", QuarterlyCoin(U16(r.v) * 100))}})
        : r \in {Random(f.rng, "qR")}})

\* maybeWeeklyNews(week, rng)
MaybeWeeklyNews(f) ==
    Only({
    LET u == U16(r.v) * 100
    IN  IF u < 20 * W16
        THEN Emit([f EXCEPT !.rng = r.rng],
                  [ShockEvent("supply_chain", -100) EXCEPT
                       !.expenseDeltaPct = 100, !.durationWeeks = 4])
        ELSE IF u < 35 * W16
        THEN Only({Emit([f EXCEPT !.rng = n.rng],
                        [ShockEvent("regulatory", n.v) EXCEPT !.durationWeeks = 4])
                   : n \in {Normal(r.rng, "newsShock", 0, 200)}})
        ELSE [f EXCEPT !.rng = r.rng]
        : r \in {Random(f.rng, "newsR")}})

\* the earnings surprise of the quarter bell
Earnings(f) ==
    Only({Emit([f EXCEPT !.rng = surprise.rng], ShockEvent("earnings", surprise.v))
          : surprise \in {Normal(f.rng, "qSurprise", 0,
                                 300 + (IF f.c.stage = "startup" THEN 200 ELSE 0))}})

\* dividends
Dividends(f) ==
    LET c == f.c
        uncapped == Scale(c.quarterNetIncomeAcc, c.payoutRatio, 10000)
        cap == Scale(c.price, c.targetYield, 40000) * c.sharesOutstanding
        totalDividend == IF c.targetYield # 0 /\ c.price > 0 THEN Min(uncapped, cap)
                         ELSE uncapped
        dps == totalDividend \div c.sharesOutstanding
    IN  IF c.payoutRatio > 0 /\ c.quarterNetIncomeAcc > 0 /\ totalDividend > 0
        THEN Emit([f EXCEPT !.c.cash = @ - totalDividend,
                            !.c.price = Max(PriceFloor, @ - dps)],
                  [NoEvent EXCEPT !.type = "dividend"])
        ELSE f

\* what the buyback step met and what it left
BuybackRecord(f, g) ==
    [g EXCEPT !.obs.buyback = <<[price |-> f.c.price, fundamental |-> f.fundamental,
                                 cash |-> f.c.cash, revenue |-> f.c.revenue,
                                 buybackRate |-> f.c.buybackRate,
                                 shares |-> f.c.sharesOutstanding,
                                 cashAfter |-> g.c.cash,
                                 sharesAfter |-> g.c.sharesOutstanding]>>]

\* a buyback of amount / price shares, whatever part of the company that is: a variant
\* of Buyback
BuybackUncapped(f) ==
    LET c == f.c
        cashBuffer == Max(0, Scale(c.revenue, 4, 10))
        amount == Scale(c.cash - cashBuffer, c.buybackRate, 10000)
    IN  IF f.fundamental > 0 /\ 10 * c.price < 9 * f.fundamental
           /\ 2 * c.cash > 3 * cashBuffer /\ c.buybackRate > 0
        THEN BuybackRecord(f,
                 Emit([f EXCEPT !.c.sharesOutstanding =
                                    FloorShares(@ - amount \div Max(1000, c.price)),
                                !.c.cash = @ - amount,
                                !.c.price = Scale(@, 101, 100)],
                      [NoEvent EXCEPT !.type = "buyback"]))
        ELSE BuybackRecord(f, f)

\* buybacks when cheap vs fundamental and cashy
Buyback(f) ==
    LET c == f.c
        cheapVsFundamental == f.fundamental > 0 /\ 10 * c.price < 9 * f.fundamental
        cashBuffer == Max(0, Scale(c.revenue, 4, 10))
        amount == Scale(c.cash - cashBuffer, c.buybackRate, 10000)
        maxSharesThisQuarter == Scale(c.sharesOutstanding, 5, 100)
        sharesRepurchased == Min(amount \div Max(1000, c.price), maxSharesThisQuarter)
    IN  IF cheapVsFundamental /\ 2 * c.cash > 3 * cashBuffer /\ c.buybackRate > 0
        THEN BuybackRecord(f,
                 Emit([f EXCEPT !.c.sharesOutstanding = FloorShares(@ - sharesRepurchased),
                                !.c.cash = @ - amount,
                                !.c.price = Scale(@, 101, 100)],
                      [NoEvent EXCEPT !.type = "buyback"]))
        ELSE BuybackRecord(f, f)

\* forward split if too pricey
ForwardSplit(f) ==
    LET c == f.c
    IN  IF c.price > 200000
        THEN Emit([f EXCEPT !.c.sharesOutstanding = @ * 4,
                            !.c.price = @ \div 4,
                            !.obs.adjustments =
                                Append(@, Adjustment("split", 4, c.price, c.sharesOutstanding,
                                                     c.price \div 4, c.sharesOutstanding * 4))],
                  [NoEvent EXCEPT !.type = "split"])
        ELSE f

\* reverse split if stuck under $1
ReverseSplit(f) ==
    LET c == f.c
        s1 == FloorShares(c.sharesOutstanding \div 10)
    IN  IF c.lowPriceStreak >= 16
        THEN Emit([f EXCEPT !.c.sharesOutstanding = s1,
                            !.c.price = @ * 10,
                            !.c.lowPriceStreak = 0,
                            !.obs.adjustments =
                                Append(@, Adjustment("reverse", 10, c.price,
                                                     c.sharesOutstanding, c.price * 10, s1))],
                  [NoEvent EXCEPT !.type = "split"])
        ELSE f

\* the streak counted and the quarter's sum carried on: a variant of CloseQuarter
CloseQuarterKeepAcc(f) ==
    [f EXCEPT !.c.negativeQuarterStreak =
                  IF f.c.quarterNetIncomeAcc < 0 THEN @ + 1 ELSE Max(0, @ - 1)]

\* the streak counted down without the floor at 0: a variant of CloseQuarter
CloseQuarterNoFloor(f) ==
    [f EXCEPT !.c.negativeQuarterStreak = IF f.c.quarterNetIncomeAcc < 0 THEN @ + 1 ELSE @ - 1,
              !.c.quarterNetIncomeAcc = 0,
              !.obs.streakAtBell = f.c.negativeQuarterStreak]

\* track distress state, close the quarter
CloseQuarter(f) ==
    [f EXCEPT !.c.negativeQuarterStreak =
                  IF f.c.quarterNetIncomeAcc < 0 THEN @ + 1 ELSE Max(0, @ - 1),
              !.c.quarterNetIncomeAcc = 0,
              !.obs.streakAtBell = f.c.negativeQuarterStreak]

\* 5) quarter bells
QuarterBell(f) ==
    IF f.week % 12 = 0
    THEN Only({MaybeQuarterlyEvents(f6) : f6 \in
              {CloseQuarter(f5)  : f5 \in
              {ReverseSplit(f4)  : f4 \in
              {ForwardSplit(f3)  : f3 \in
              {Buyback(f2)       : f2 \in
              {Dividends(f1)     : f1 \in
              {Earnings(f)}}}}}}})
    ELSE f

\* weekly news
WeeklyNews(f) ==
    Only({Only({IF ch.v THEN MaybeWeeklyNews(g) ELSE g : g \in {[f EXCEPT !.rng = ch.rng]}})
          : ch \in {Chance(f.rng, "newsP", 5)}})

\* minCash = 0.02 * revenue * 48 / 12
MinCash(c) == Scale(c.revenue, 8, 100)

\* a raise that is paid into cash and never booked as debt: a variant of Distress
DistressUnbooked(f) ==
    IF f.c.cash < 0
    THEN Only({[f EXCEPT !.c.cash = @ + raise,
                         !.obs.distressRan = TRUE,
                         !.obs.cashAtDistress = f.c.cash,
                         !.obs.debtAtDistress = f.c.debt,
                         !.obs.cashAfterRaise = f.c.cash + raise,
                         !.obs.debtAfterRaise = f.c.debt]
               : raise \in {Abs(f.c.cash) + MinCash(f.c)}})
    ELSE f

\* a tick that raises nothing when cash is negative: a variant of Distress
DistressSkipped(f) == f

\* the emergency debt raise
Distress(f) ==
    LET c == f.c
        wanted == Abs(c.cash) + MinCash(c)
        limit  == ScaleUp(Max(1, TotalAssets(c)), 2, 10)
        raise  == Min(wanted, limit)
    IN  IF c.cash < 0
        THEN Emit([f EXCEPT !.c.debt = @ + raise,
                            !.c.cash = @ + raise,
                            !.obs.distressRan = TRUE,
                            !.obs.cashAtDistress = c.cash,
                            !.obs.debtAtDistress = c.debt,
                            !.obs.cashAfterRaise = c.cash + raise,
                            !.obs.debtAfterRaise = c.debt + raise,
                            !.obs.raiseCapped = limit < wanted],
                  ShockEvent("distress", -300))
        ELSE f

\* what the bankruptcy check reads
AtCheck(f) ==
    [f EXCEPT !.obs.leverageAtCheck = DebtToEquity(f.c),
              !.obs.streakAtCheck = f.c.negativeQuarterStreak,
              !.obs.cashAtCheck = f.c.cash,
              !.obs.minCashAtCheck = MinCash(f.c)]

\* the company wound up: applyEvent(bankruptcy), isBankrupt = true, price * 0.2
WindUp(f) ==
    Only({[g EXCEPT !.c.isBankrupt = TRUE,
                    !.c.price = Max(EventFloor, Scale(@, 2, 10)),
                    !.obs.becameBankrupt = TRUE]
          : g \in {Emit(AtCheck(f), ShockEvent("bankruptcy", -9000))}})

\* bankruptcy on leverage and streak alone: a variant of Bankruptcy
BankruptcyIgnoringCash(f) ==
    IF DebtToEquity(f.c) > 500 /\ f.c.negativeQuarterStreak >= 8
    THEN WindUp(f)
    ELSE AtCheck(f)

\* bankruptcy on severe leverage and cash below -minCash alone, whatever the streak: a
\* variant of Bankruptcy
BankruptcyIgnoringStreak(f) ==
    IF DebtToEquity(f.c) > 500 /\ f.c.cash < -MinCash(f.c)
    THEN WindUp(f)
    ELSE AtCheck(f)

\* bankruptcy: severe leverage, eight negative quarters, cash below -minCash
Bankruptcy(f) ==
    LET c == f.c
        severeLeverage == DebtToEquity(c) > 500
    IN  IF severeLeverage /\ c.negativeQuarterStreak >= 8 /\ c.cash < -MinCash(c)
        THEN WindUp(f)
        ELSE AtCheck(f)

\* the tick without the post-update floor: a variant of FloorPrice
KeepPrice(f) == [f EXCEPT !.obs.priceBeforeFloor = f.c.price]

\* the global post-update floor
FloorPrice(f) ==
    [f EXCEPT !.c.price = Max(PriceFloor, @), !.obs.priceBeforeFloor = f.c.price]

\* mark split-like share changes for external adjustment
MarkSplit(f) ==
    LET after == f.c.sharesOutstanding
        before == f.sharesBefore
        splitLike == before > 0 /\ (2 * after > 3 * before \/ 100 * after < 67 * before)
    IN  [f EXCEPT !.c.pendingSplitFactor = IF splitLike THEN Fraction(after, before)
                                           ELSE NoSplit]

\* write history
WriteHistory(f) == [f EXCEPT !.c.history = Append(@, Snapshot(f.c, f.week))]

\* a bankrupt tick that lifts the suspension: a variant of FrozenTick
FrozenTickRevived(c, week, rng) ==
    [c   |-> [c EXCEPT !.history = Append(@, Snapshot(c, week)), !.isBankrupt = FALSE],
     rng |-> rng,
     obs |-> [NoObs EXCEPT !.bankruptAtCall = TRUE, !.priceBeforeFloor = c.price]]

\* a bankrupt tick that returns before the push: a variant of FrozenTick
FrozenTickSilent(c, week, rng) ==
    [c   |-> c,
     rng |-> rng,
     obs |-> [NoObs EXCEPT !.bankruptAtCall = TRUE, !.priceBeforeFloor = c.price]]

\* a bankrupt tick that still draws its weekly-news coin: a variant of FrozenTick
FrozenTickDrawing(c, week, rng) ==
    [c   |-> [c EXCEPT !.history = Append(@, Snapshot(c, week))],
     rng |-> Chance(rng, "newsP", 5).rng,
     obs |-> [NoObs EXCEPT !.bankruptAtCall = TRUE, !.priceBeforeFloor = c.price]]

\* if (this.isBankrupt) { this.history.push(this.snapshot(week)); return; }
FrozenTick(c, week, rng) ==
    [c   |-> [c EXCEPT !.history = Append(@, Snapshot(c, week))],
     rng |-> rng,
     obs |-> [NoObs EXCEPT !.bankruptAtCall = TRUE, !.priceBeforeFloor = c.price]]

\* Company.simulateWeek(week, market, sector, rng); returns the company, the generator
\* (the caller's object, advanced) and the record of the tick
SimulateWeek(c, week, market, sector, rng) ==
    IF c.isBankrupt
    THEN FrozenTick(c, week, rng)
    ELSE Only({[c |-> f.c, rng |-> f.rng, obs |-> f.obs] : f \in
              {WriteHistory(f12)  : f12 \in
              {MarkSplit(f11)     : f11 \in
              {FloorPrice(f10)    : f10 \in
              {Bankruptcy(f9)     : f9 \in
              {Distress(f8)       : f8 \in
              {WeeklyNews(f7)     : f7 \in
              {QuarterBell(f6)    : f6 \in
              {BandNormalize(f5)  : f5 \in
              {PriceDynamics(f4)  : f4 \in
              {Valuation(f3)      : f3 \in
              {Effects(f2)        : f2 \in
              {Fundamentals(f1)   : f1 \in
              {Sentiment(f0)      : f0 \in
              {[c |-> c, rng |-> rng, week |-> week, market |-> market,
                sector |-> sector, sharesBefore |-> c.sharesOutstanding,
                netIncome |-> 0, driftAdj |-> 0, multipleAdj |-> 0,
                targetPE |-> 0, fundamental |-> 0, obs |-> NoObs]}}}}}}}}}}}}}}})

(* ------------------------------ GameStore ------------------------------- *)
(* A store is a record.  Ledger cash and cost bases are in mills, share     *)
(* quantities in whole shares, tickers are tuples of letters 0..25.  The    *)
(* chart series are derived data and are not kept.                          *)

Agents == {"gemini", "claude", "gpt5"}

StartingCash == 10000000     \* startingCash = 10000 dollars, in mills

NoHoldings == [t \in {} |-> 0]

NewAgent == [cash |-> StartingCash, holdings |-> NoHoldings, deciding |-> FALSE,
             lastDecisionYear |-> 0]

\* the field initializers of GameStore, around a universe
NewStore(rng, companies) ==
    [rng |-> rng, market |-> NewMarket, sectors |-> BuildSectors, companies |-> companies,
     week |-> 0, gameStarted |-> FALSE, gameStartWeek |-> 0,
     cash |-> StartingCash, holdings |-> NoHoldings, realizedPnL |-> 0,
     companyCount |-> Len(companies),
     splitAdjusters |-> [t \in {companies[i].ticker : i \in 1..Len(companies)} |-> NoSplit],
     agents |-> [a \in Agents |-> NewAgent], pending |-> {}, launches |-> 0]

\* this.sectors[c.sector] ?? sectorsArr[0]
SectorOf(sectors, name) ==
    IF \E i \in 1..Len(sectors) : sectors[i].name = name
    THEN sectors[CHOOSE i \in 1..Len(sectors) : sectors[i].name = name]
    ELSE sectors[1]

\* c.simulateWeek(this.week, this.market, sector, this.rng) for company i of run,
\* a record of the companies, the generator and the ticks so far
SimulateOne(run, i, week, market, sectors) ==
    Only({[companies |-> [run.companies EXCEPT ![i] = r.c],
           rng |-> r.rng,
           obs |-> Append(run.obs, [tick |-> r.obs, rngIn |-> run.rng, rngOut |-> r.rng,
                                    week |-> week, market |-> market,
                                    sectors |-> sectors])]
          : r \in {SimulateWeek(run.companies[i], week, market,
                                SectorOf(sectors, run.companies[i].sector), run.rng)}})

RECURSIVE SimulateAll(_, _, _, _, _, _)
\* for (const c of this.companies) c.simulateWeek(...), companies lo..hi in order,
\* the range computed in two halves
SimulateAll(run, lo, hi, week, market, sectors) ==
    IF lo > hi THEN run
    ELSE IF lo = hi THEN Only({SimulateOne(r, lo, week, market, sectors) : r \in {run}})
    ELSE Only({SimulateAll(left, ((lo + hi) \div 2) + 1, hi, week, market, sectors)
               : left \in {SimulateAll(run, lo, (lo + hi) \div 2, week, market, sectors)}})

\* floor(quantity * f) and avgCostBasis / f
AdjustHolding(h, f) ==
    [quantity |-> (h.quantity * f[1]) \div f[2],
     avgCostBasis |-> (h.avgCostBasis * f[2]) \div f[1]]

\* the company that carries a ticker (the last one, as the Map keeps it), or 0
IndexOf(companies, t) ==
    IF \E i \in 1..Len(companies) : companies[i].ticker = t
    THEN CHOOSE i \in 1..Len(companies) :
             /\ companies[i].ticker = t
             /\ \A j \in (i + 1)..Len(companies) : companies[j].ticker # t
    ELSE 0

\* the holdings of one ledger after the split adjustments of a step
AdjustHoldings(holdings, companies) ==
    [t \in DOMAIN holdings |->
        LET i == IndexOf(companies, t)
        IN  IF i # 0 /\ companies[i].pendingSplitFactor # NoSplit /\ holdings[t].quantity > 0
            THEN AdjustHolding(holdings[t], companies[i].pendingSplitFactor)
            ELSE holdings[t]]

\* splitAdjusters.set(c.ticker, prevAdj * c.pendingSplitFactor)
AdjustSplitAdjusters(adjusters, companies) ==
    LET split == {i \in 1..Len(companies) : companies[i].pendingSplitFactor # NoSplit}
        tickers == DOMAIN adjusters \cup {companies[i].ticker : i \in split}
    IN  [t \in tickers |->
            LET prev == IF t \in DOMAIN adjusters THEN adjusters[t] ELSE NoSplit
                i == IndexOf(companies, t)
            IN  IF i \in split THEN Times(prev, companies[i].pendingSplitFactor) ELSE prev]

\* elapsedWeeks
ElapsedWeeks(st) == IF st.gameStarted THEN Max(0, st.week - st.gameStartWeek) ELSE 0

\* the place of a competitor in the order in which the store launches evaluations
Rank(a) == IF a = "gemini" THEN 1 ELSE IF a = "claude" THEN 2 ELSE 3

\* this.xDeciding = true; this.evaluateXYearly().catch(...).finally(...) for each of the
\* launched competitors: every call is a promise of its own, told apart by its serial
Launch(st, launched, yearIdx) ==
    [st EXCEPT !.agents = [a \in Agents |-> [@[a] EXCEPT !.deciding = @ \/ a \in launched]],
               !.pending = @ \cup {[agent |-> a, yearIdx |-> yearIdx,
                                    serial |-> st.launches
                                               + Cardinality({b \in launched :
                                                                 Rank(b) <= Rank(a)})]
                                   : a \in launched},
               !.launches = @ + Cardinality(launched)]

\* the yearly evaluations that a step launches
Launched(st) ==
    LET weeks == ElapsedWeeks(st)
        yearIdx == weeks \div 48
    IN  IF st.gameStarted /\ weeks > 0 /\ weeks % 48 = 0
        THEN {a \in Agents : ~st.agents[a].deciding /\ st.agents[a].lastDecisionYear < yearIdx}
        ELSE {}

\* a step that simulates the companies before the market and the sectors move: a
\* variant of StepStore
StepStoreCompaniesFirst(st) ==
    Only({Only({Only({Only({Only({
        [st  |-> Launch(s1, launched, ElapsedWeeks(s1) \div 48),
         obs |-> cs.obs]
        : launched \in {Launched(s1)}})
        : s1 \in {[st EXCEPT !.week = st.week + 1, !.market = mu.market,
                             !.sectors = su.sectors,
                             !.companies = cs.companies, !.rng = su.rng,
                             !.holdings = AdjustHoldings(@, cs.companies),
                             !.agents = [a \in Agents |->
                                            [@[a] EXCEPT !.holdings =
                                                 AdjustHoldings(@, cs.companies)]],
                             !.splitAdjusters = AdjustSplitAdjusters(@, cs.companies)]}})
        : su \in {SectorsUpdate(st.sectors, mu.market, mu.rng, 1)}})
        : mu \in {MarketUpdate(st.market, cs.rng)}})
        : cs \in {SimulateAll([companies |-> st.companies, rng |-> st.rng, obs |-> <<>>],
                              1, Len(st.companies), st.week + 1, st.market, st.sectors)}})

\* GameStore.step(); returns the store and the record of each company's tick
StepStore(st) ==
    Only({Only({Only({Only({Only({
        [st  |-> Launch(s1, launched, ElapsedWeeks(s1) \div 48),
         obs |-> cs.obs]
        : launched \in {Launched(s1)}})
        : s1 \in {[st EXCEPT !.week = st.week + 1, !.market = mu.market,
                             !.sectors = su.sectors,
                             !.companies = cs.companies, !.rng = cs.rng,
                             !.holdings = AdjustHoldings(@, cs.companies),
                             !.agents = [a \in Agents |->
                                            [@[a] EXCEPT !.holdings =
                                                 AdjustHoldings(@, cs.companies)]],
                             !.splitAdjusters = AdjustSplitAdjusters(@, cs.companies)]}})
        : cs \in {SimulateAll([companies |-> st.companies, rng |-> su.rng, obs |-> <<>>],
                              1, Len(st.companies), st.week + 1, mu.market, su.sectors)}})
        : su \in {SectorsUpdate(st.sectors, mu.market, mu.rng, 1)}})
        : mu \in {MarketUpdate(st.market, st.rng)}})

RECURSIVE Steps(_, _)
\* for (let i = 0; i < clamped; i++) this.step(), the run computed in two halves so
\* that the evaluation does not nest one level per week
Steps(st, weeks) ==
    IF weeks = 0 THEN st
    ELSE IF weeks = 1 THEN StepStore(st).st
    ELSE Only({Steps(half, weeks - (weeks \div 2)) : half \in {Steps(st, weeks \div 2)}})

\* preSimulate(weeks)
PreSimulate(st, weeks) == Steps(st, Max(0, Min(weeks, 520)))

\* startNewGame(): the player and the competitors restart at the current week, and
\* the three first evaluations are launched
StartNewGame(st) ==
    Launch([st EXCEPT !.cash = StartingCash, !.holdings = NoHoldings, !.realizedPnL = 0,
                      !.splitAdjusters =
                          [t \in {st.companies[i].ticker : i \in 1..Len(st.companies)}
                             |-> NoSplit],
                      !.agents = [a \in Agents |-> NewAgent],
                      !.gameStarted = TRUE, !.gameStartWeek = st.week],
           Agents, 0)

\* the impact without the cap: a variant of ImpactPct
ImpactPctUncapped(company, shares, side) ==
    LET sign == IF side = "buy" THEN 1 ELSE -1
        floatShares == Max(1, company.sharesOutstanding)
        q == Max(0, shares)
        rel8 == (((q * 1000) \div floatShares) * 100)
                + ((((q * 1000) % floatShares) * 100) \div floatShares)
        illiquidity == Clamp(1000 + ((company.baseVol - 2000) \div 5), 600, 1800)
    IN  sign * (((ISqrt(Min(rel8, 100000000)) * illiquidity) * 6) \div 1000)

\* an impact of 1% whatever the size: a variant of ImpactPct
ImpactPctFlat(company, shares, side) == IF side = "buy" THEN 1000 ELSE -1000

\* an impact that pushes the price up on either side: a variant of ImpactPct
ImpactPctUnsigned(company, shares, side) ==
    Clamp(Abs(ImpactPctUncapped(company, shares, side)), -6000, 6000)

\* impactPct of applyTradeImpact, in units of 1e-5
ImpactPct(company, shares, side) ==
    LET sign == IF side = "buy" THEN 1 ELSE -1
        floatShares == Max(1, company.sharesOutstanding)
        q == Max(0, shares)
        \* relativeSize times 1e8; a size of 3% or more is past the cap for any illiquidity
        big == q >= 30 * floatShares
        rel8 == (((q * 1000) \div floatShares) * 100)
                + ((((q * 1000) % floatShares) * 100) \div floatShares)
        illiquidity == Clamp(1000 + ((company.baseVol - 2000) \div 5), 600, 1800)
        rawImpact == IF big THEN 6000 ELSE ((ISqrt(rel8) * illiquidity) * 6) \div 1000
    IN  Clamp(sign * rawImpact, -6000, 6000)

\* GameStore.applyTradeImpact(company, shares, side): the company after the impact
ApplyTradeImpact(company, shares, side) ==
    [company EXCEPT !.price =
        Max(PriceFloor, @ + Scale(@, ImpactPct(company, shares, side), 100000))]

\* Math.round(Math.max(0, dollarAmount) / 1000) * 1000
RoundToThousand(dollarAmount) == RoundDiv(Max(0, dollarAmount), 1000) * 1000

\* GameStore.buy(ticker, dollarAmount)
Buy(st, ticker, dollarAmount) ==
    Only({
    LET company == st.companies[i]
        budget == Min(RoundToThousand(dollarAmount), st.cash \div 1000)
        whole == (budget * 1000) \div Max(1000, company.price)
        shares == IF whole <= 0 /\ st.cash >= company.price THEN 1 ELSE whole
        cost == shares * company.price
        newQty == st.holdings[ticker].quantity + shares
    IN  IF i = 0 THEN st
        ELSE IF shares <= 0 \/ cost > st.cash THEN st
        ELSE [st EXCEPT
                 !.cash = @ - cost,
                 !.holdings =
                     IF ticker \notin DOMAIN st.holdings
                     THEN (ticker :> [quantity |-> shares, avgCostBasis |-> company.price]) @@ @
                     ELSE [@ EXCEPT ![ticker] =
                              [quantity |-> newQty,
                               avgCostBasis |-> ((@.avgCostBasis * @.quantity) + cost)
                                                \div newQty]],
                 !.companies[i] = ApplyTradeImpact(company, shares, "buy")]
        : i \in {IndexOf(st.companies, ticker)}})

\* GameStore.sell(ticker, dollarAmount)
Sell(st, ticker, dollarAmount) ==
    Only({
    LET company == st.companies[i]
        existing == st.holdings[ticker]
        sharesReq == (RoundToThousand(dollarAmount) * 1000) \div Max(1000, company.price)
        qty == Min(sharesReq, existing.quantity)
    IN  IF i = 0 THEN st
        ELSE IF ticker \notin DOMAIN st.holdings THEN st
        ELSE IF existing.quantity <= 0 \/ qty <= 0 THEN st
        ELSE [st EXCEPT
                 !.cash = @ + (company.price * qty),
                 !.realizedPnL = @ + ((company.price - existing.avgCostBasis) * qty),
                 !.holdings =
                     IF existing.quantity - qty <= 0
                     THEN [t \in DOMAIN @ \ {ticker} |-> @[t]]
                     ELSE [@ EXCEPT ![ticker].quantity = @ - qty],
                 !.companies[i] = ApplyTradeImpact(company, qty, "sell")]
        : i \in {IndexOf(st.companies, ticker)}})

\* a buy that moves the price first and pays the moved price: a variant of ApplyAgentBuy
ApplyAgentBuyImpactFirst(st, a, ticker, dollars) ==
    Only({
    LET company == st.companies[i]
        ledger == st.agents[a]
        budget == Min(Max(0, dollars), ledger.cash \div 1000)
        shares == (budget * 1000) \div Max(1000, company.price)
        moved == ApplyTradeImpact(company, shares, "buy")
        cost == shares * moved.price
    IN  IF i = 0 THEN st
        ELSE IF shares <= 0 \/ cost > ledger.cash THEN st
        ELSE [st EXCEPT
                 !.agents[a].cash = @ - cost,
                 !.agents[a].holdings =
                     IF ticker \notin DOMAIN ledger.holdings
                     THEN (ticker :> [quantity |-> shares, avgCostBasis |-> moved.price]) @@ @
                     ELSE [@ EXCEPT ![ticker] =
                              [quantity |-> @.quantity + shares,
                               avgCostBasis |-> ((@.avgCostBasis * @.quantity) + cost)
                                                \div (@.quantity + shares)]],
                 !.companies[i] = moved]
        : i \in {IndexOf(st.companies, ticker)}})

\* a buy of what the decision asks for, whatever the ledger's cash: a variant of
\* ApplyAgentBuy
ApplyAgentBuyOnCredit(st, a, ticker, dollars) ==
    Only({
    LET company == st.companies[i]
        ledger == st.agents[a]
        shares == (Max(0, dollars) * 1000) \div Max(1000, company.price)
        cost == shares * company.price
    IN  IF i = 0 \/ shares <= 0 THEN st
        ELSE [st EXCEPT
                 !.agents[a].cash = @ - cost,
                 !.agents[a].holdings =
                     IF ticker \notin DOMAIN ledger.holdings
                     THEN (ticker :> [quantity |-> shares, avgCostBasis |-> company.price]) @@ @
                     ELSE [@ EXCEPT ![ticker] =
                              [quantity |-> @.quantity + shares,
                               avgCostBasis |-> ((@.avgCostBasis * @.quantity) + cost)
                                                \div (@.quantity + shares)]],
                 !.companies[i] = ApplyTradeImpact(company, shares, "buy")]
        : i \in {IndexOf(st.companies, ticker)}})

\* applyGeminiBuy, applyClaudeBuy, applyGpt5Buy(ticker, dollars) on the ledger of agent a
ApplyAgentBuy(st, a, ticker, dollars) ==
    Only({
    LET company == st.companies[i]
        ledger == st.agents[a]
        budget == Min(Max(0, dollars), ledger.cash \div 1000)
        shares == (budget * 1000) \div Max(1000, company.price)
        cost == shares * company.price
        newQty == ledger.holdings[ticker].quantity + shares
    IN  IF i = 0 THEN st
        ELSE IF shares <= 0 \/ cost > ledger.cash THEN st
        ELSE [st EXCEPT
                 !.agents[a].cash = @ - cost,
                 !.agents[a].holdings =
                     IF ticker \notin DOMAIN ledger.holdings
                     THEN (ticker :> [quantity |-> shares, avgCostBasis |-> company.price]) @@ @
                     ELSE [@ EXCEPT ![ticker] =
                              [quantity |-> newQty,
                               avgCostBasis |-> ((@.avgCostBasis * @.quantity) + cost)
                                                \div newQty]],
                 !.companies[i] = ApplyTradeImpact(company, shares, "buy")]
        : i \in {IndexOf(st.companies, ticker)}})

\* applyGeminiSell, applyClaudeSell, applyGpt5Sell(ticker, dollars) on the ledger of agent a
ApplyAgentSell(st, a, ticker, dollars) ==
    Only({
    LET company == st.companies[i]
        ledger == st.agents[a]
        existing == ledger.holdings[ticker]
        sharesReq == (Max(0, dollars) * 1000) \div Max(1000, company.price)
        qty == Min(sharesReq, existing.quantity)
    IN  IF i = 0 THEN st
        ELSE IF ticker \notin DOMAIN ledger.holdings THEN st
        ELSE IF existing.quantity <= 0 \/ qty <= 0 THEN st
        ELSE [st EXCEPT
                 !.agents[a].cash = @ + (company.price * qty),
                 !.agents[a].holdings =
                     IF existing.quantity - qty <= 0
                     THEN [t \in DOMAIN @ \ {ticker} |-> @[t]]
                     ELSE [@ EXCEPT ![ticker].quantity = @ - qty],
                 !.companies[i] = ApplyTradeImpact(company, qty, "sell")]
        : i \in {IndexOf(st.companies, ticker)}})

\* the ledgers and the prices of a store
View(st) ==
    [prices  |-> [i \in 1..Len(st.companies) |-> st.companies[i].price],
     ledgers |-> [who \in Agents \cup {"player"} |->
                     IF who = "player" THEN [cash |-> st.cash, holdings |-> st.holdings]
                     ELSE [cash |-> st.agents[who].cash,
                           holdings |-> st.agents[who].holdings]]]

\* the record of one order: who placed it, and the ledgers and prices around it
Entry(who, side, ticker, before, after) ==
    [who |-> who, side |-> side, ticker |-> ticker,
     index |-> IndexOf(before.companies, ticker),
     before |-> View(before), after |-> View(after)]

RECURSIVE ApplyDecisions(_, _, _, _)
\* for (const d of resp.decisions) if (d.action === "BUY") applyBuy(...) else applySell(...)
ApplyDecisions(run, a, decisions, k) ==
    IF k > Len(decisions) THEN run
    ELSE Only({Only({
             ApplyDecisions([st |-> after,
                             log |-> Append(run.log,
                                            Entry(a, IF d.action = "BUY" THEN "buy" ELSE "sell",
                                                  d.ticker, run.st, after))],
                            a, decisions, j)
             : after \in {IF d.action = "BUY"
                          THEN ApplyAgentBuy(run.st, a, d.ticker, d.dollars)
                          ELSE ApplyAgentSell(run.st, a, d.ticker, d.dollars)},
               j \in {k + 1}})
             : d \in {decisions[k]}})

\* the continuation of evaluateGeminiYearly, evaluateClaudeYearly or evaluateGpt5Yearly
\* once the decisions have arrived, and the finally block of the launch p
EvaluateYearly(st, p, decisions) ==
    Only({[st  |-> [run.st EXCEPT
                       !.agents[p.agent].deciding = FALSE,
                       !.agents[p.agent].lastDecisionYear =
                           IF p.yearIdx > 0 THEN p.yearIdx ELSE @,
                       !.pending = @ \ {p}],
           log |-> run.log]
          : run \in {ApplyDecisions([st |-> st, log |-> <<>>], p.agent, decisions, 1)}})

\* an evaluation whose request rejects after its first decision was applied: a
\* variant of EvaluateFailed
EvaluateFailedHalfApplied(st, p) ==
    EvaluateYearly(st, p, <<[action |-> "BUY", ticker |-> st.companies[1].ticker,
                             dollars |-> 1000]>>).st

\* the await of the request rejects: the catch of evaluate*Yearly swallows the error
\* and the finally block of the launch p runs
EvaluateFailed(st, p) ==
    [st EXCEPT !.agents[p.agent].deciding = FALSE,
               !.agents[p.agent].lastDecisionYear = IF p.yearIdx > 0 THEN p.yearIdx ELSE @,
               !.pending = @ \ {p}]

RECURSIVE TickerChars(_, _, _)
\* Array.from({ length }, () => String.fromCharCode(65 + Math.floor(random() * 26)))
TickerChars(rng, n, acc) ==
    IF n = 0 THEN [v |-> acc, rng |-> rng]
    ELSE Only({Only({TickerChars(r.rng, m, next)
               : m \in {n - 1}, next \in {Append(acc, (U16(r.v) * 26) \div W16)}})
               : r \in {Random(rng, "tickChar")}})

RECURSIVE GenTicker(_, _)
\* genTicker(): do { ... } while (usedTickers.has(t))
GenTicker(rng, usedTickers) ==
    Only({Only({IF t.v \in usedTickers THEN GenTicker(t.rng, usedTickers) ELSE t
        : t \in {TickerChars(len.rng, 3 + ((U16(len.v) * 2) \div W16), <<>>)}})
        : len \in {Random(rng, "tickLen")}})

\* lo + random() * span
Uniform(r, lo, span) == lo + Scale(U16(r.v), span, W16)

\* one pass of the loop of createCompanies: the CompanyInit and the generator after it
DrawCompany(rng, sectorNames, usedTickers) ==
    Only({Only({Only({Only({Only({Only({Only({Only({Only({Only({Only({Only({
    LET weeklyRevenue == (1500000 + Scale(U16(base.v), 93750, 1024)) \div 48
        expenseFactor == 5000
                         + (IF risk.v = "high" THEN 1200
                            ELSE IF risk.v = "medium" THEN 700 ELSE 300)
                         + (IF stage.v = "startup" THEN 1200
                            ELSE IF stage.v = "growth" THEN 600 ELSE 0)
    IN  [v |-> [ticker |-> ticker.v, sector |-> sector.v,
                revenue |-> weeklyRevenue,
                expenses |-> Scale(weeklyRevenue, expenseFactor, 10000),
                shares |-> Uniform(shares, 2000, 8000),
                riskProfile |-> risk.v, stage |-> stage.v,
                payoutRatio |-> IF stage.v = "mature" THEN Uniform(payout, 2000, 4000) ELSE 0,
                targetYield |-> IF stage.v = "mature" THEN Uniform(yield, 200, 300) ELSE 0,
                capexRate |-> IF sector.v = "Utilities" THEN 800
                              ELSE Uniform(capex, 300, 500),
                rAndDRate |-> IF stage.v \in {"startup", "growth"}
                              THEN Uniform(rnd, 1000, 1500) ELSE Uniform(rnd, 200, 400),
                sentiment |-> sentiment.v,
                cash |-> Scale(weeklyRevenue, Uniform(cash, 6000, 12000), 1000),
                debt |-> weeklyRevenue * (IF risk.v = "high" THEN 40
                                          ELSE IF risk.v = "medium" THEN 24 ELSE 12),
                assets |-> weeklyRevenue * (IF risk.v = "high" THEN 80 ELSE 120)],
         rng |-> cash.rng]
        : cash   \in {Random(sentiment.rng, "cash")}})
        : sentiment \in {Normal(rnd.rng, "sentiment", 0, 200)}})
        : rnd    \in {Random(capex.rng, "rnd")}})
        : capex  \in {IF sector.v = "Utilities" THEN yield ELSE Random(yield.rng, "capex")}})
        : yield  \in {IF stage.v = "mature" THEN Random(payout.rng, "yield") ELSE payout}})
        : payout \in {IF stage.v = "mature" THEN Random(shares.rng, "payout") ELSE shares}})
        : shares \in {Random(ticker.rng, "shares")}})
        : ticker \in {GenTicker(base.rng, usedTickers)}})
        : base   \in {Random(stage.rng, "baseRevenue")}})
        : stage  \in {Pick(risk.rng, "stage", <<"startup", "growth", "mature", "decline">>)}})
        : risk   \in {Pick(sector.rng, "risk", <<"low", "medium", "high">>)}})
        : sector \in {Pick(rng, "sector", sectorNames)}})

RECURSIVE CreateCompanies(_, _, _)
\* GameStore.createCompanies(count): the companies and the generator after the draws
CreateCompanies(rng, count, companies) ==
    IF count = 0 THEN [companies |-> companies, rng |-> rng]
    ELSE Only({Only({CreateCompanies(d.rng, n, next)
               : n \in {count - 1}, next \in {Append(companies, NewCompany(d.v))}})
               : d \in {DrawCompany(rng, SectorNames,
                                    {companies[i].ticker : i \in 1..Len(companies)})}})

\* a rebuild that keeps the generator of the store: a variant of ResetUniverse
ResetUniverseSameRng(st, seed, companyCount, years) ==
    Only({Only({Only({
        [s2 EXCEPT !.gameStarted = FALSE, !.gameStartWeek = 0]
        : s2 \in {IF years > 0 THEN PreSimulate(s1, years * 48) ELSE s1}})
        : s1 \in {[st EXCEPT !.week = 0, !.rng = cc.rng,
                             !.market = NewMarket, !.sectors = BuildSectors,
                             !.companies = cc.companies,
                             !.splitAdjusters =
                                 [t \in {cc.companies[i].ticker : i \in 1..Len(cc.companies)}
                                     |-> NoSplit]]}})
        : cc \in {CreateCompanies(st.rng, IF companyCount > 0 THEN companyCount
                                          ELSE st.companyCount, <<>>)}})

\* GameStore.resetUniverse({ seed, companyCount, years })
ResetUniverse(st, seed, companyCount, years) ==
    Only({Only({Only({Only({
        [s2 EXCEPT !.gameStarted = FALSE, !.gameStartWeek = 0]
        : s2 \in {IF years > 0 THEN PreSimulate(s1, years * 48) ELSE s1}})
        : s1 \in {[st EXCEPT !.companyCount = count, !.week = 0, !.rng = cc.rng,
                             !.market = NewMarket, !.sectors = BuildSectors,
                             !.companies = cc.companies,
                             !.splitAdjusters =
                                 [t \in {cc.companies[i].ticker : i \in 1..count}
                                     |-> NoSplit]]}})
        : cc \in {CreateCompanies(NewRNG(seed), count, <<>>)}})
        : count \in {IF companyCount > 0 THEN companyCount ELSE st.companyCount}})

CompanyCount == 10           \* companyCount = 10

\* new GameStore(): the field initializers, a universe of companyCount companies from
\* a generator seeded by the clock, three years of history, and the game started
Constructor(clock) ==
    Only({StartNewGame(PreSimulate(NewStore(cc.rng, cc.companies), 48 * 3))
          : cc \in {CreateCompanies(NewRNG(clock), CompanyCount, <<>>)}})

(* ------------------------------ scenarios ------------------------------- *)
(* A scenario fixes what the generator returns at each call site (a z-score *)
(* in 1e-3 for a normal draw, the top 16 bits for a uniform one, every      *)
(* value inside what mulberry32 and Box-Muller can return) and the          *)
(* companies of the universe, with every field inside the range of          *)
(* createCompanies.                                                         *)

UniformSites == {"mShockP", "qR", "qCoin", "newsP", "newsR"}

NormalSites == {"mSent", "mRate", "mInfl", "mShock", "sSent", "sGrowth", "sVol", "cSent",
                "cRev", "cExp", "cMkt", "cSec", "cIdio", "qSurprise", "qShock", "newsShock"}

ZMax == 6660     \* the largest |z| of Box-Muller on a 32-bit uniform, in 1e-3

\* no macro shock, no event, no news, every normal draw at its mean
Quiet == [site \in UniformSites \cup NormalSites |-> IF site \in UniformSites THEN 65535 ELSE 0]

\* revenue falls and costs, rates and inflation rise; the idiosyncratic price draw is z
Adverse(z) ==
    [Quiet EXCEPT !["mRate"] = ZMax, !["mInfl"] = ZMax, !["sGrowth"] = -ZMax,
                  !["cRev"] = -ZMax, !["cExp"] = ZMax, !["cIdio"] = z]

\* prices climb at z; a quarterly event and a weekly headline every time
Eventful(z, qR, newsR) ==
    [Quiet EXCEPT !["cIdio"] = z, !["qR"] = qR, !["qCoin"] = 0, !["newsP"] = 0,
                  !["newsR"] = newsR, !["mShockP"] = 0, !["mShock"] = 1000]

\* prices fall at -ZMax; a scandal or lawsuit at every quarter bell, a regulatory
\* headline every week at -5.66 sigma, every other shock and surprise at -ZMax
Crash ==
    [Quiet EXCEPT !["cIdio"] = -ZMax, !["qR"] = 18000, !["qShock"] = -ZMax,
                  !["qSurprise"] = -ZMax, !["newsP"] = 0, !["newsR"] = 15000,
                  !["newsShock"] = -5660]

\* the adverse draws with a supply-chain headline every week on top
Strained == [Adverse(0) EXCEPT !["newsP"] = 0, !["newsR"] = 0]

\* revenue grows and costs shrink as fast as they can
Recovery == [Quiet EXCEPT !["cRev"] = ZMax, !["cExp"] = -ZMax]

\* prices slide at -ZMax and nothing else happens: cheap shares, full coffers
Slide == [Quiet EXCEPT !["cIdio"] = -ZMax]

\* a high-risk startup at the low end of revenue and cash
Burner(shares) ==
    [ticker |-> <<1, 20, 17>>, sector |-> "Technology", revenue |-> 31250,
     expenses |-> 23125, shares |-> shares, riskProfile |-> "high", stage |-> "startup",
     payoutRatio |-> 0, targetYield |-> 0, capexRate |-> 790, rAndDRate |-> 2490,
     sentiment |-> 0, cash |-> 187500, debt |-> 1250000, assets |-> 2500000]

\* a mature low-risk dividend payer
Payer ==
    [ticker |-> <<15, 0, 24>>, sector |-> "Utilities", revenue |-> 100000,
     expenses |-> 53000, shares |-> 4000, riskProfile |-> "low", stage |-> "mature",
     payoutRatio |-> 4000, targetYield |-> 300, capexRate |-> 800, rAndDRate |-> 300,
     sentiment |-> 0, cash |-> 1200000, debt |-> 1200000, assets |-> 12000000]

\* the store of a scenario: its universe, weeks of preSimulate, and the game started
ScenarioStore(script, inits, weeks) ==
    StartNewGame(PreSimulate(NewStore(ScriptedRNG(script),
                                      [i \in 1..Len(inits) |-> NewCompany(inits[i])]),
                             weeks))

(* --------------------------- the state machine -------------------------- *)

MaxSteps == 6        \* steps taken after the initial state

MaxTrades == 2       \* player orders

Late == 116          \* weeks of preSimulate behind the late initial states

Early == 8           \* weeks of preSimulate behind the early ones

Expiry == 20         \* weeks of preSimulate behind the one that sees an effect run out

Mid == 92            \* weeks of preSimulate behind the one that meets the eighth quarter

Crest == 28          \* weeks of preSimulate behind the one that climbs over 300 dollars

Turn == 20           \* weeks of preSimulate behind the one that returns to profit

Slump == 44          \* weeks of preSimulate behind the one that falls towards 1 dollar

TradeDollar == 2000  \* the dollar amount of a player order

Scenarios ==
    {[script |-> Adverse(0), inits |-> <<Burner(2000), Payer>>, weeks |-> Late],
     [script |-> Adverse(1000), inits |-> <<Burner(2000), Payer>>, weeks |-> Late],
     [script |-> Adverse(0), inits |-> <<Burner(2000), Payer>>, weeks |-> Mid],
     [script |-> Strained, inits |-> <<Burner(2000), Payer>>, weeks |-> Mid],
     [script |-> Eventful(ZMax, 0, 0), inits |-> <<Burner(2000), Payer>>, weeks |-> Early],
     [script |-> Eventful(ZMax, 0, 0), inits |-> <<Burner(2000), Payer>>, weeks |-> Expiry],
     [script |-> Eventful(ZMax, 0, 0), inits |-> <<Burner(2000), Payer>>, weeks |-> Crest],
     [script |-> Recovery, inits |-> <<Burner(2000), Payer>>, weeks |-> Turn],
     [script |-> Crash, inits |-> <<Burner(2000), Payer>>, weeks |-> Slump],
     [script |-> Slide, inits |-> <<Burner(2000), Payer>>, weeks |-> Slump],
     [script |-> Eventful(0, 13000, 20000), inits |-> <<Burner(6001), Payer>>,
      weeks |-> Early]}

ScenarioTickers == {Burner(2000).ticker, Payer.ticker}

NoTrade ==
    [ticker |-> <<>>, side |-> "none", index |-> 0, shares |-> 0,
     priceBefore |-> 0, priceAfter |-> 0]

NoProbe(ids, budget) ==
    [op |-> "init", id |-> "", obs |-> <<>>, trade |-> NoTrade, log |-> <<>>,
     reply |-> <<>>, outcome |-> <<>>,
     steps |-> [id \in ids |-> 0], budget |-> budget, trades |-> 0]

Init ==
    /\ \E scn \in Scenarios :
           stores = [id \in {"A"} |-> ScenarioStore(scn.script, scn.inits, scn.weeks)]
    /\ rngs = <<>>
    /\ probe = NoProbe({"A"}, MaxSteps)

\* a timer tick or a click on Step: GameStore.step()
Step(id) ==
    /\ probe.steps[id] < probe.budget
    /\ \E r \in {StepStore(stores[id])} :
           /\ stores' = [stores EXCEPT ![id] = r.st]
           /\ probe' = [probe EXCEPT !.op = "step", !.id = id, !.obs = r.obs,
                                     !.trade = NoTrade, !.log = <<>>,
                                     !.steps[id] = @ + 1]
    /\ UNCHANGED rngs

\* the quantity a ledger holds in a ticker
Held(holdings, ticker) == IF ticker \in DOMAIN holdings THEN holdings[ticker].quantity ELSE 0

\* what a player order did
TradeOf(st, after, ticker, side) ==
    Only({[ticker |-> ticker, side |-> side, index |-> i,
           shares |-> Abs(Held(after.holdings, ticker) - Held(st.holdings, ticker)),
           priceBefore |-> st.companies[i].price, priceAfter |-> after.companies[i].price]
          : i \in {IndexOf(st.companies, ticker)}})

\* the player buys: GameStore.buy(ticker, dollarAmount), when no early return is taken
PlayerBuy(id, ticker) ==
    /\ probe.trades < MaxTrades
    /\ \E after \in {Buy(stores[id], ticker, TradeDollar)} :
           /\ after # stores[id]
           /\ stores' = [stores EXCEPT ![id] = after]
           /\ probe' = [probe EXCEPT !.op = "buy", !.id = id, !.obs = <<>>,
                                     !.trade = TradeOf(stores[id], after, ticker, "buy"),
                                     !.trades = @ + 1]
    /\ UNCHANGED rngs

\* the player sells: GameStore.sell(ticker, dollarAmount), when no early return is taken
PlayerSell(id, ticker) ==
    /\ probe.trades < MaxTrades
    /\ \E after \in {Sell(stores[id], ticker, TradeDollar)} :
           /\ after # stores[id]
           /\ stores' = [stores EXCEPT ![id] = after]
           /\ probe' = [probe EXCEPT !.op = "sell", !.id = id, !.obs = <<>>,
                                     !.trade = TradeOf(stores[id], after, ticker, "sell"),
                                     !.trades = @ + 1]
    /\ UNCHANGED rngs

Next ==
    \/ Step("A")
    \/ \E t \in ScenarioTickers : PlayerBuy("A", t)
    \/ \E t \in ScenarioTickers : PlayerSell("A", t)

Spec == Init /\ [][Next]_vars

(* ------------------------- two rebuilt universes ------------------------ *)
(* Two stores with different pasts call resetUniverse with the same         *)
(* options and are then stepped independently.                              *)

DetSteps == 4                      \* steps taken by each rebuilt store

BootClock == <<39702, 25563>>      \* Date.now() >>> 0 at construction

ResetSeeds == {<<1, 0>>, <<51966, 47806>>}

ResetCounts == {2, 3}

ResetYears == {0, 1}

\* a store that has been played: one week on, with a position in its first company
Played(st) ==
    Only({Buy(s, s.companies[1].ticker, TradeDollar) : s \in {StepStore(st).st}})

InitDet ==
    /\ \E boot \in {Constructor(BootClock)} :
       \E played \in {Played(boot)} :
       \E seed \in ResetSeeds, count \in ResetCounts, years \in ResetYears :
           stores = [id \in {"A", "B"} |->
                        ResetUniverse(IF id = "A" THEN boot ELSE played, seed, count, years)]
    /\ rngs = <<>>
    /\ probe = NoProbe({"A", "B"}, DetSteps)

NextDet == Step("A") \/ Step("B")

SpecDet == InitDet /\ [][NextDet]_vars

(* ------------------------- two RNG instances ---------------------------- *)

MaxCalls == 2                      \* calls made on each instance

RngSeeds == {<<0, 0>>, <<12345, 0>>, <<65535, 65535>>}

Methods == {"random", "normal", "tnorm", "chance", "pick"}

\* one call on an instance, with fixed arguments: normal(0, 1), tnorm(0, 1, -1, 1),
\* chance(0.5), pick(["a", "b", "c"]); values in 1e-3 where they are fractions
Invoke(rng, method) ==
    IF method = "random" THEN Random(rng, "call")
    ELSE IF method = "normal" THEN Normal(rng, "call", 0, 1000)
    ELSE IF method = "tnorm"
    THEN Only({[v |-> r.v, rng |-> r.rng] : r \in {Tnorm(rng, "call", 0, 1000, -1000, 1000)}})
    ELSE IF method = "chance" THEN Chance(rng, "call", 50)
    ELSE Pick(rng, "call", <<"a", "b", "c">>)

InitRNG ==
    /\ stores = <<>>
    /\ \E seed \in RngSeeds :
           rngs = [id \in {"X", "Y"} |-> [rng |-> NewRNG(seed), calls |-> <<>>, out |-> <<>>]]
    /\ probe = NoProbe({}, MaxCalls)

\* a call that advances a state word shared by the instances: a variant of Call
CallShared(id, method) ==
    /\ Len(rngs[id].calls) < probe.budget
    /\ \E r \in {Invoke(rngs[id].rng, method)} :
           rngs' = [x \in DOMAIN rngs |->
                       IF x = id
                       THEN [rng |-> r.rng, calls |-> Append(rngs[x].calls, method),
                             out |-> Append(rngs[x].out, r.v)]
                       ELSE [rngs[x] EXCEPT !.rng = r.rng]]
    /\ probe' = [probe EXCEPT !.op = method, !.id = id]
    /\ UNCHANGED stores

\* a call of one method of class RNG on one instance
Call(id, method) ==
    /\ Len(rngs[id].calls) < probe.budget
    /\ \E r \in {Invoke(rngs[id].rng, method)} :
           rngs' = [rngs EXCEPT ![id] = [rng |-> r.rng, calls |-> Append(@.calls, method),
                                         out |-> Append(@.out, r.v)]]
    /\ probe' = [probe EXCEPT !.op = method, !.id = id]
    /\ UNCHANGED stores

NextRNG == \E id \in {"X", "Y"}, method \in Methods : Call(id, method)

SpecRNG == InitRNG /\ [][NextRNG]_vars

(* --------------------------- one listed company ------------------------- *)
(* applyTradeImpact as a function of the company and the order: the store   *)
(* holds one company, and each step applies one impact to it.               *)

MaxImpacts == 2                    \* impacts applied in a row

ImpactFloats == {1000, 4000, 20000}          \* sharesOutstanding, in thousands

ImpactRisks == {"low", "medium", "high"}

ImpactPrices == {500, 3000, 100000}          \* mills

Quantities == {0, 1, 25, 400, 2500, 10000, 40000, 100000, 1000000}

Orders == {0, 25, 2500, 40000, 1000000}         \* the quantities that are applied

Sides == {"buy", "sell"}

\* a company as the market can hold it: a float, a risk profile and a price
Listing(shares, risk, price) ==
    [NewCompany([Payer EXCEPT !.shares = shares, !.riskProfile = risk])
        EXCEPT !.price = price]

InitImpact ==
    /\ \E shares \in ImpactFloats, risk \in ImpactRisks, price \in ImpactPrices :
           stores = [id \in {"A"} |->
                        NewStore(NewRNG(<<1, 0>>), <<Listing(shares, risk, price)>>)]
    /\ rngs = <<>>
    /\ probe = NoProbe({"A"}, MaxImpacts)

\* this.applyTradeImpact(company, shares, side)
Impact(id, shares, side) ==
    /\ probe.trades < MaxImpacts
    /\ \E after \in {ApplyTradeImpact(stores[id].companies[1], shares, side)} :
           /\ stores' = [stores EXCEPT ![id].companies[1] = after]
           /\ probe' = [probe EXCEPT !.op = "impact", !.id = id, !.obs = <<>>,
                                     !.trade = [ticker |-> after.ticker, side |-> side,
                                                index |-> 1, shares |-> shares,
                                                priceBefore |-> stores[id].companies[1].price,
                                                priceAfter |-> after.price],
                                     !.trades = @ + 1]
    /\ UNCHANGED rngs

NextImpact == \E shares \in Orders, side \in Sides : Impact("A", shares, side)

SpecImpact == InitImpact /\ [][NextImpact]_vars

(* ------------------------------ tnorm calls ----------------------------- *)
(* One generator, seeded or scripted, and one set of arguments with         *)
(* lo <= hi; each step is a call of tnorm.  Values are in 1e-3.             *)

TnormCalls == 3                    \* calls made in a row

TnormScripts == {-ZMax, -1000, 0, 1000, ZMax}     \* the z of every normal draw

\* tnorm(0, 0.02, -0.08, 0.08) and tnorm(0, 0.08, -0.2, 0.2) of MarketEnv and
\* SectorIndex, a tail interval, a point interval and a one-sided one
TnormArgs ==
    {[mean |-> 0, std |-> 20, lo |-> -80, hi |-> 80],
     [mean |-> 0, std |-> 80, lo |-> -200, hi |-> 200],
     [mean |-> 0, std |-> 1000, lo |-> 3000, hi |-> 4000],
     [mean |-> 0, std |-> 1000, lo |-> 500, hi |-> 500],
     [mean |-> 100, std |-> 1000, lo |-> -100000, hi |-> 0]}

InitTnorm ==
    /\ stores = <<>>
    /\ \E rng \in {NewRNG(seed) : seed \in RngSeeds}
                  \cup {ScriptedRNG([site \in {"call"} |-> z]) : z \in TnormScripts},
          args \in TnormArgs :
           rngs = [id \in {"T"} |->
                      [rng |-> rng, calls |-> <<>>, out |-> <<>>, tries |-> <<>>,
                       args |-> args]]
    /\ probe = NoProbe({}, TnormCalls)

\* rng.tnorm(mean, std, lo, hi)
CallTnorm(id) ==
    /\ Len(rngs[id].calls) < probe.budget
    /\ \E r \in {Tnorm(rngs[id].rng, "call", rngs[id].args.mean, rngs[id].args.std,
                       rngs[id].args.lo, rngs[id].args.hi)} :
           rngs' = [rngs EXCEPT ![id] = [@ EXCEPT !.rng = r.rng,
                                                  !.calls = Append(@, "tnorm"),
                                                  !.out = Append(@, r.v),
                                                  !.tries = Append(@, r.tries)]]
    /\ probe' = [probe EXCEPT !.op = "tnorm", !.id = id]
    /\ UNCHANGED stores

NextTnorm == CallTnorm("T")

SpecTnorm == InitTnorm /\ [][NextTnorm]_vars

(* ------------------------------ the ledgers ----------------------------- *)
(* A started game in which the player places orders, accepted or not, and   *)
(* the three competitors' evaluations come back with their decisions.       *)

DeskSteps == 1                     \* steps taken

DeskTrades == 2                    \* orders and evaluations

Unlisted == <<25, 25, 25>>         \* a ticker that no company carries

AllIn == 10000                     \* an order for the whole starting cash, in dollars

OddLot == 400                      \* an order that rounds to no thousand: one share

Pittance == 4                      \* a decision that pays for one share of a 3-dollar stock

Brink == 45                        \* weeks of preSimulate behind a 1-for-2 consolidation

DeskScenarios ==
    {[script |-> Adverse(0), inits |-> <<Burner(2000), Payer>>, weeks |-> Late],
     [script |-> Eventful(ZMax, 0, 0), inits |-> <<Burner(2000), Payer>>, weeks |-> Early],
     [script |-> Slide, inits |-> <<Burner(2000), Payer>>, weeks |-> Brink]}

\* what the player can ask for: a ticker and a dollar amount
DeskOrders ==
    {[ticker |-> Payer.ticker, dollars |-> TradeDollar],
     [ticker |-> Burner(2000).ticker, dollars |-> AllIn],
     [ticker |-> Unlisted, dollars |-> TradeDollar],
     [ticker |-> Payer.ticker, dollars |-> OddLot]}

\* what an evaluation can come back with
DeskDecisions ==
    {<<>>,
     <<[action |-> "BUY", ticker |-> Payer.ticker, dollars |-> AllIn],
       [action |-> "BUY", ticker |-> Payer.ticker, dollars |-> TradeDollar]>>,
     <<[action |-> "BUY", ticker |-> Burner(2000).ticker, dollars |-> TradeDollar],
       [action |-> "SELL", ticker |-> Burner(2000).ticker, dollars |-> AllIn]>>,
     <<[action |-> "SELL", ticker |-> Payer.ticker, dollars |-> TradeDollar],
       [action |-> "BUY", ticker |-> Unlisted, dollars |-> TradeDollar]>>,
     <<[action |-> "BUY", ticker |-> Payer.ticker, dollars |-> Pittance]>>}

InitDesk ==
    /\ \E scn \in DeskScenarios :
           stores = [id \in {"A"} |-> ScenarioStore(scn.script, scn.inits, scn.weeks)]
    /\ rngs = <<>>
    /\ probe = NoProbe({"A"}, DeskSteps)

\* GameStore.buy or GameStore.sell(ticker, dollarAmount), whatever its outcome
Order(id, side, order) ==
    /\ probe.trades < DeskTrades
    /\ \E after \in {IF side = "buy" THEN Buy(stores[id], order.ticker, order.dollars)
                     ELSE Sell(stores[id], order.ticker, order.dollars)} :
           /\ stores' = [stores EXCEPT ![id] = after]
           /\ probe' = [probe EXCEPT !.op = side, !.id = id, !.obs = <<>>,
                                     !.trade = NoTrade,
                                     !.log = <<Entry("player", side, order.ticker,
                                                     stores[id], after)>>,
                                     !.trades = @ + 1]
    /\ UNCHANGED rngs

\* the decisions of a competitor's evaluation arrive and are applied
Decide(id, a, decisions) ==
    /\ probe.trades < DeskTrades
    /\ \E p \in {q \in stores[id].pending : q.agent = a} :
       \E r \in {EvaluateYearly(stores[id], p, decisions)} :
           /\ stores' = [stores EXCEPT ![id] = r.st]
           /\ probe' = [probe EXCEPT !.op = "decide", !.id = id, !.obs = <<>>,
                                     !.trade = NoTrade, !.log = r.log,
                                     !.trades = @ + 1]
    /\ UNCHANGED rngs

\* the request of a competitor's evaluation rejects
Fail(id, a) ==
    /\ probe.trades < DeskTrades
    /\ \E p \in {q \in stores[id].pending : q.agent = a} :
           stores' = [stores EXCEPT ![id] = EvaluateFailed(stores[id], p)]
    /\ probe' = [probe EXCEPT !.op = "fail", !.id = id, !.obs = <<>>,
                              !.trade = NoTrade, !.log = <<>>, !.trades = @ + 1]
    /\ UNCHANGED rngs

NextDesk ==
    \/ Step("A")
    \/ \E side \in Sides, order \in DeskOrders : Order("A", side, order)
    \/ \E a \in Agents, decisions \in DeskDecisions : Decide("A", a, decisions)
    \/ \E a \in Agents : Fail("A", a)

SpecDesk == InitDesk /\ [][NextDesk]_vars

(* --------------------------- decision requests -------------------------- *)
(* requestGeminiDecisions from the reply text on.  A string is a tuple of   *)
(* character codes: 0..25 for A..Z, 26..51 for a..z, 52 for a blank.  A     *)
(* reply text is what surrounds its JSON (wrap) and the JSON value itself;  *)
(* a dollars number is held in cents.                                       *)

Blank == 52

\* String.prototype.toUpperCase, one character
UpperChar(ch) == IF ch \in 26..51 THEN ch - 26 ELSE ch

RECURSIVE TrimStart(_)
TrimStart(s) == IF s # <<>> /\ Head(s) = Blank THEN TrimStart(Tail(s)) ELSE s

RECURSIVE TrimEnd(_)
TrimEnd(s) ==
    IF s # <<>> /\ s[Len(s)] = Blank THEN TrimEnd(SubSeq(s, 1, Len(s) - 1)) ELSE s

\* d.ticker.trim().toUpperCase()
TrimUpper(s) == Only({[i \in 1..Len(t) |-> UpperChar(t[i])] : t \in {TrimEnd(TrimStart(s))}})

Garbage == [kind |-> "garbage"]

\* the catch of JSON.parse: { decisions: [], rationale: undefined }
NoDecisions == [kind |-> "object", decisions |-> [kind |-> "array", items |-> <<>>]]

\* generateOpenRouterText: the content trimmed, an Error when nothing is left
ReplyText(reply) ==
    IF reply.wrap = "blank" THEN [thrown |-> TRUE, text |-> reply]
    ELSE [thrown |-> FALSE, text |-> reply]

\* JSON.parse(jsonText || raw), jsonText being the fenced block or the span from the
\* first "{" to the last "}": a value that is not an object survives only when the
\* text is that value alone or is fenced
Parse(text) ==
    IF text.json.kind = "garbage" THEN Garbage
    ELSE IF text.wrap = "prose" /\ text.json.kind # "object" THEN Garbage
    ELSE text.json

\* .filter(d => d && typeof d.ticker === "string" && typeof d.dollars === "number")
Usable(d) == d.kind = "object" /\ d.ticker.kind = "string" /\ d.dollars.kind = "number"

\* the map of the sanitizer
Sanitized(d) ==
    [action  |-> IF d.action = "SELL" THEN "SELL" ELSE "BUY",
     ticker  |-> TrimUpper(d.ticker.chars),
     dollars |-> Max(0, d.dollars.cents \div 100)]

MaxDecisions == 12

\* the indices of the usable items, in order, at most 12 of them
Kept(items) ==
    Only({SubSeq(all, 1, Min(MaxDecisions, Len(all)))
          : all \in {SelectSeq([i \in 1..Len(items) |-> i], LAMBDA i : Usable(items[i]))}})

\* the sanitizer that reads decisions of whatever JSON.parse returned
Sanitize(parsed) ==
    IF parsed.kind = "null" THEN [status |-> "rejected", decisions |-> <<>>, from |-> <<>>]
    ELSE Only({Only({[status    |-> "resolved",
                      decisions |-> [k \in 1..Len(kept) |-> Sanitized(items[kept[k]])],
                      from      |-> kept]
                     : kept \in {Kept(items)}})
               : items \in {IF parsed.kind = "object" /\ parsed.decisions.kind = "array"
                            THEN parsed.decisions.items ELSE <<>>}})

\* requestGeminiDecisions, from the reply on
RequestDecisions(reply) ==
    Only({IF raw.thrown THEN [status |-> "rejected", decisions |-> <<>>, from |-> <<>>]
          ELSE Only({Sanitize(IF parsed.kind = "garbage" THEN NoDecisions ELSE parsed)
                     : parsed \in {Parse(raw.text)}})
          : raw \in {ReplyText(reply)}})

(* Replies: the items a decisions list can hold, the JSON values a reply can *)
(* carry and the ways the text can wrap them.                               *)

Str(chars) == [kind |-> "string", chars |-> chars]
Num(cents) == [kind |-> "number", cents |-> cents]
Item(action, ticker, dollars) ==
    [kind |-> "object", action |-> action, ticker |-> ticker, dollars |-> dollars]

ReplyItems ==
    {Item("SELL", Str(<<Blank, 26, 1, Blank>>), Num(12345)),
     Item("sell", Str(<<0, 0>>), Num(-250)),
     [kind |-> "null"],
     Item("BUY", Num(7), Num(100)),
     Item("BUY", Str(<<2>>), Str(<<>>))}

MaxItems == 2

ReplyLists ==
    UNION {[1..n -> ReplyItems] : n \in 0..MaxItems}
    \cup {[i \in 1..(MaxDecisions + 1) |-> Item("BUY", Str(<<i>>), Num(100 * i))]}

ReplyValues ==
    {Garbage, [kind |-> "null"], [kind |-> "number"],
     [kind |-> "object", decisions |-> [kind |-> "absent"]],
     [kind |-> "object", decisions |-> Str(<<>>)]}
    \cup {[kind |-> "object", decisions |-> [kind |-> "array", items |-> l]] : l \in ReplyLists}

Replies ==
    {[wrap |-> w, json |-> v] : w \in {"bare", "fenced", "prose"}, v \in ReplyValues}
    \cup {[wrap |-> "blank", json |-> Garbage]}

InitDecisions ==
    \E reply \in Replies :
        /\ stores = <<>>
        /\ rngs   = <<>>
        /\ probe  = [NoProbe({}, 0) EXCEPT !.reply = reply]

Request ==
    /\ probe.op = "init"
    /\ probe' = [probe EXCEPT !.op = "request", !.outcome = RequestDecisions(probe.reply)]
    /\ UNCHANGED <<stores, rngs>>

NextDecisions == Request

SpecDecisions == InitDecisions /\ [][NextDecisions]_vars

(* ------------------------------ the market ------------------------------ *)
(* A MarketEnv of its own, updated with draws that the generator can return. *)

MaxUpdates == 8                    \* updates taken

\* nothing moves; everything rises under an upward macro shock; everything falls
\* under a downward one; rates and inflation fall with no shock
MarketScripts ==
    {Quiet,
     [Quiet EXCEPT !["mSent"] = 4000, !["mRate"] = ZMax, !["mInfl"] = ZMax,
                   !["mShockP"] = 0, !["mShock"] = 2500],
     [Quiet EXCEPT !["mSent"] = -4000, !["mRate"] = -ZMax, !["mInfl"] = -ZMax,
                   !["mShockP"] = 0, !["mShock"] = -2500],
     [Quiet EXCEPT !["mSent"] = -4000, !["mRate"] = -ZMax, !["mInfl"] = -ZMax]}

InitMarket ==
    /\ stores = [id \in {"M"} |-> NewMarket]
    /\ rngs = <<>>
    /\ probe = NoProbe({"M"}, MaxUpdates)

\* MarketEnv.update(rng)
Update(id, script) ==
    /\ probe.steps[id] < probe.budget
    /\ stores' = [stores EXCEPT ![id] = MarketUpdate(@, ScriptedRNG(script)).market]
    /\ probe' = [probe EXCEPT !.op = "update", !.id = id,
                              !.obs = <<[shock |-> Chance(ScriptedRNG(script), "mShockP", 1).v,
                                         before |-> stores[id]]>>,
                              !.steps[id] = @ + 1]
    /\ UNCHANGED rngs

NextMarket == \E script \in MarketScripts : Update("M", script)

SpecMarket == InitMarket /\ [][NextMarket]_vars

(* ------------------------- the derived accessors ------------------------ *)
(* One company whose fields are drawn from the cases the accessors tell     *)
(* apart, and one step that reads every accessor.                           *)

ReadShares == {0, 1000, 4000}                     \* sharesOutstanding, in thousands

ReadDebts == {1200000, 13200000, 20000000}        \* equity 12M, 0 and -6.8M

ReadExpenses == {20000, 53000, 150000}

ReadPrices == {500, 100000}

\* the netIncome of the weeks on record: none, a profit, a loss, and a sum of 0
ReadIncomes == {<<>>, <<9000>>, <<4000, -30000>>, <<5000, -5000>>}

Measured(shares, debt, expenses, price, incomes) ==
    Only({[c EXCEPT !.history = [w \in 1..Len(incomes) |->
                                    [Snapshot(c, w) EXCEPT !.netIncome = incomes[w]]]]
          : c \in {[NewCompany([Payer EXCEPT !.shares = shares, !.debt = debt,
                                             !.expenses = expenses])
                       EXCEPT !.price = price]}})

InitRead ==
    /\ \E shares \in ReadShares, debt \in ReadDebts, expenses \in ReadExpenses,
          price \in ReadPrices, incomes \in ReadIncomes :
           stores = [id \in {"A"} |->
                        NewStore(NewRNG(<<1, 0>>),
                                 <<Measured(shares, debt, expenses, price, incomes)>>)]
    /\ rngs = <<>>
    /\ probe = NoProbe({"A"}, 0)

\* the getters of Company, read one after the other
Read(id) ==
    /\ probe.op = "init"
    /\ \E c \in {stores[id].companies[1]} :
           probe' = [probe EXCEPT !.op = "read", !.id = id,
                                  !.obs = <<[eps |-> Eps(c), pe |-> Pe(c), ps |-> Ps(c),
                                             ttmEPS |-> TtmEPS(c), peTTM |-> PeTTM(c),
                                             psTTM |-> PsTTM(c), equity |-> Equity(c),
                                             debtToEquity |-> DebtToEquity(c)]>>]
    /\ UNCHANGED <<stores, rngs>>

NextRead == Read("A")

SpecRead == InitRead /\ [][NextRead]_vars


(* --------------------------- the yearly launches ------------------------ *)
(* A game that was started YearEve weeks ago and whose three first          *)
(* evaluations have not come back yet.  The timer or the Step button        *)
(* steps, the Start Game button starts the game again, and the evaluations  *)
(* in flight come back, with decisions or with an error, in any order.      *)

YearEve == 46                      \* weeks played since the game was started

YearSteps == 3                     \* steps taken

YearCalls == 3                     \* evaluations that come back and games started again

\* what an evaluation comes back with
YearDecisions == {<<[action |-> "BUY", ticker |-> Payer.ticker, dollars |-> TradeDollar]>>}

InitYear ==
    /\ stores = [id \in {"A"} |->
                    Steps(ScenarioStore(Quiet, <<Burner(2000), Payer>>, Early), YearEve)]
    /\ rngs = <<>>
    /\ probe = NoProbe({"A"}, YearSteps)

\* the promise p of an evaluation resolves: its decisions are applied and its finally
\* block runs
Settle(id, a, decisions) ==
    /\ probe.trades < YearCalls
    /\ \E p \in {q \in stores[id].pending : q.agent = a} :
       \E r \in {EvaluateYearly(stores[id], p, decisions)} :
           /\ stores' = [stores EXCEPT ![id] = r.st]
           /\ probe' = [probe EXCEPT !.op = "settle", !.id = id, !.obs = <<>>,
                                     !.trade = NoTrade, !.log = r.log, !.trades = @ + 1]
    /\ UNCHANGED rngs

\* the request of the promise p rejects: the error is swallowed and the finally block runs
Reject(id, a) ==
    /\ probe.trades < YearCalls
    /\ \E p \in {q \in stores[id].pending : q.agent = a} :
           stores' = [stores EXCEPT ![id] = EvaluateFailed(stores[id], p)]
    /\ probe' = [probe EXCEPT !.op = "reject", !.id = id, !.obs = <<>>,
                              !.trade = NoTrade, !.log = <<>>, !.trades = @ + 1]
    /\ UNCHANGED rngs

\* a click on Start Game: GameStore.startNewGame()
Restart(id) ==
    /\ probe.trades < YearCalls
    /\ stores' = [stores EXCEPT ![id] = StartNewGame(stores[id])]
    /\ probe' = [probe EXCEPT !.op = "restart", !.id = id, !.obs = <<>>,
                              !.trade = NoTrade, !.log = <<>>, !.trades = @ + 1]
    /\ UNCHANGED rngs

NextYear ==
    \/ Step("A")
    \/ \E a \in Agents, decisions \in YearDecisions : Settle("A", a, decisions)
    \/ \E a \in Agents : Reject("A", a)
    \/ Restart("A")

SpecYear == InitYear /\ [][NextYear]_vars

(* ------------------------------- the timer ------------------------------ *)
(* The Play and Pause buttons and the speed selector around a started game: *)
(* start, stop and setSpeed in any order, and the interval that fires.      *)

TimerCalls == 4                    \* calls of start, stop and setSpeed

TimerSteps == 2                    \* times the interval fires

DefaultSpeed == 600                \* speedMs = 600

SpeedLow == 80                     \* clamp(ms, 80, 5000)

SpeedHigh == 5000

\* the options of the speed selector, and values outside the range
SpeedInputs == {0, 80, 320, 900, 5000, 60000}

\* timer = null, speedMs = 600: no interval is set (the handles that setInterval returns
\* are positive); handles counts the setInterval calls made so far, asked and ms
\* remember the last of start and stop and the last setSpeed
NewTimer ==
    [timer |-> Null, speedMs |-> DefaultSpeed, intervals |-> {}, handles |-> 0,
     asked |-> "none", ms |-> DefaultSpeed]

\* a start that sets an interval whether or not one is set: a variant of TimerStart
TimerStartUnguarded(t) ==
    [t EXCEPT !.timer = t.handles + 1,
              !.intervals = @ \cup {[handle |-> t.handles + 1, period |-> t.speedMs]},
              !.handles = @ + 1]

\* start(): if (this.timer != null) return; this.timer = setInterval(step, speedMs)
TimerStart(t) ==
    IF t.timer # Null THEN t
    ELSE [t EXCEPT !.timer = t.handles + 1,
                   !.intervals = @ \cup {[handle |-> t.handles + 1, period |-> t.speedMs]},
                   !.handles = @ + 1]

\* stop(): if (this.timer != null) { clearInterval(this.timer); this.timer = null }
TimerStop(t) ==
    IF t.timer # Null
    THEN [t EXCEPT !.intervals = {i \in @ : i.handle # t.timer}, !.timer = Null]
    ELSE t

\* setSpeed(ms): speedMs = clamp(ms, 80, 5000); if (this.timer != null) { stop(); start() }
TimerSetSpeed(t, ms) ==
    Only({IF s.timer # Null THEN TimerStart(TimerStop(s)) ELSE s
          : s \in {[t EXCEPT !.speedMs = Clamp(ms, SpeedLow, SpeedHigh)]}})

InitTimer ==
    /\ stores = ("A" :> ScenarioStore(Quiet, <<Burner(2000), Payer>>, Early))
                @@ ("T" :> NewTimer)
    /\ rngs = <<>>
    /\ probe = NoProbe({"A"}, TimerSteps)

\* a call of start, stop or setSpeed that leaves the timer as after
Called(op, after) ==
    /\ probe.trades < TimerCalls
    /\ stores' = [stores EXCEPT !["T"] = after]
    /\ probe' = [probe EXCEPT !.op = op, !.id = "T", !.obs = <<>>, !.trade = NoTrade,
                              !.log = <<>>, !.trades = @ + 1]
    /\ UNCHANGED rngs

\* a click on Play: GameStore.start()
Start == Called("start", [TimerStart(stores["T"]) EXCEPT !.asked = "start"])

\* a click on Pause: GameStore.stop()
Stop == Called("stop", [TimerStop(stores["T"]) EXCEPT !.asked = "stop"])

\* a choice in the speed selector: GameStore.setSpeed(ms)
SetSpeed(ms) == Called("setSpeed", [TimerSetSpeed(stores["T"], ms) EXCEPT !.ms = ms])

\* an interval that is set fires: () => this.step()
Fire == stores["T"].intervals # {} /\ Step("A")

NextTimer ==
    \/ Start
    \/ Stop
    \/ \E ms \in SpeedInputs : SetSpeed(ms)
    \/ Fire

SpecTimer == InitTimer /\ [][NextTimer]_vars
(* ------------------------------ properties ------------------------------ *)

Companies(id) == stores[id].companies

\* the per-company records of the step that led to this state
Ticks == IF probe.op = "step" THEN 1..Len(probe.obs) ELSE {}

\* a share change that the tick marks as split-like
SplitLike(before, after) == 2 * after > 3 * before \/ 100 * after < 67 * before

\* C1: every company's price is at least 0.5 whenever simulateWeek has returned and
\* after every applyTradeImpact call, for any interleaving of ticks with buys and sells
C1_PriceAtLeastFloor ==
    \A id \in DOMAIN stores : \A i \in 1..Len(Companies(id)) :
        Companies(id)[i].price >= PriceFloor

\* a sell pushed the price of a company down onto the floor, and the last tick of that
\* company had ended below the floor before the floor was applied
C1_FloorReached ==
    /\ probe.op = "sell"
    /\ probe.trade.priceBefore > PriceFloor
    /\ probe.trade.priceAfter = PriceFloor
    /\ Companies(probe.id)[probe.trade.index].isBankrupt

\* C2: once a company's isBankrupt flag is true it is true in every later state, under
\* any sequence of ticks, events and trade-impact calls
C2_BankruptcyIsTerminal ==
    [][\A id \in DOMAIN stores : \A i \in 1..Len(Companies(id)) :
          Companies(id)[i].isBankrupt => stores'[id].companies[i].isBankrupt]_vars

\* a bankrupt company that has been ticked since and then moved by a buy
C2_BankruptTraded ==
    /\ probe.op = "buy"
    /\ probe.trade.priceAfter > probe.trade.priceBefore
    /\ LET c == Companies(probe.id)[probe.trade.index]
       IN  /\ c.isBankrupt
           /\ Len(c.history) >= 2
           /\ c.history[Len(c.history)].cash = c.history[Len(c.history) - 1].cash
           /\ c.history[Len(c.history)].price = PriceFloor

\* C3: after N steps since the universe was built every company's history has exactly
\* N entries whose weeks are 1, 2, ..., N in order, bankrupt ticks included
C3_HistoryIsGapless ==
    \A id \in DOMAIN stores : \A i \in 1..Len(Companies(id)) :
        /\ Len(Companies(id)[i].history) = stores[id].week
        /\ \A k \in 1..Len(Companies(id)[i].history) : Companies(id)[i].history[k].week = k

\* a step in which one company was already bankrupt, after the step in which it became so
C3_BankruptTicksCounted ==
    \E k \in Ticks :
        /\ probe.obs[k].tick.bankruptAtCall
        /\ Len(Companies(probe.id)[k].history) = stores[probe.id].week
        /\ stores[probe.id].week > Late

\* C4: pendingSplitFactor is a one-shot signal: if it differs from 1 when tick k returns
\* it is 1 when tick k+1 returns unless a new split-like share change occurs in tick
\* k+1, for every company, one that went bankrupt in tick k included
C4_SplitFactorIsOneShot ==
    [][probe'.op = "step" =>
          \A i \in 1..Len(Companies(probe'.id)) :
              Companies(probe'.id)[i].pendingSplitFactor # NoSplit =>
                  \/ stores'[probe'.id].companies[i].pendingSplitFactor = NoSplit
                  \/ SplitLike(Companies(probe'.id)[i].sharesOutstanding,
                               stores'[probe'.id].companies[i].sharesOutstanding)]_vars

\* the same, for the companies that are not bankrupt when tick k+1 starts
C4_SplitFactorIsOneShotWhileTrading ==
    [][probe'.op = "step" =>
          \A i \in 1..Len(Companies(probe'.id)) :
              /\ Companies(probe'.id)[i].pendingSplitFactor # NoSplit
              /\ ~Companies(probe'.id)[i].isBankrupt
              => \/ stores'[probe'.id].companies[i].pendingSplitFactor = NoSplit
                 \/ SplitLike(Companies(probe'.id)[i].sharesOutstanding,
                              stores'[probe'.id].companies[i].sharesOutstanding)]_vars

\* C5: two universes built by resetUniverse with the same seed, companyCount and years
\* and stepped the same number of times, with no trades, have identical macro, sector
\* and company state (prices and histories included) after every step
C5_SameSeedSameUniverse ==
    {"A", "B"} \subseteq DOMAIN stores =>
        (stores["A"].week = stores["B"].week =>
            /\ stores["A"].market = stores["B"].market
            /\ stores["A"].sectors = stores["B"].sectors
            /\ stores["A"].companies = stores["B"].companies
            /\ stores["A"].rng = stores["B"].rng)

\* both rebuilt stores have taken all their steps, and their pasts differed: one holds
\* a position bought before the rebuild and the other does not
C5_BothStepped ==
    /\ {"A", "B"} \subseteq DOMAIN stores
    /\ probe.steps["A"] = DetSteps
    /\ probe.steps["B"] = DetSteps
    /\ stores["A"].holdings # stores["B"].holdings
    /\ stores["A"].companies[1].history # <<>>

\* the instances X and Y have answered the same calls with the same values
SameStream ==
    {"X", "Y"} \subseteq DOMAIN rngs =>
        (rngs["X"].calls = rngs["Y"].calls =>
            /\ rngs["X"].out = rngs["Y"].out
            /\ rngs["X"].rng = rngs["Y"].rng)

\* a call on one instance leaves the other instance as it was
OwnStateOnly ==
    \A id \in DOMAIN rngs :
        rngs'[id] # rngs[id] => \A other \in DOMAIN rngs \ {id} : rngs'[other] = rngs[other]

\* C6: two RNG instances constructed with the same seed and driven through the same
\* sequence of calls return identical values at every call, and each call reads and
\* mutates nothing but the instance's own state word
C6_SameSeedSameStream == []SameStream /\ [][OwnStateOnly]_vars

\* both instances have made all their calls, the same ones, two different methods
C6_BothCalled ==
    /\ {"X", "Y"} \subseteq DOMAIN rngs
    /\ Len(rngs["X"].calls) = MaxCalls
    /\ rngs["X"].calls = rngs["Y"].calls
    /\ rngs["X"].calls[1] # rngs["X"].calls[MaxCalls]
    /\ rngs["X"].rng.state # NewRNG(<<0, 0>>).state

\* C7: for every company and every tick, sharesOutstanding is at least 1,000,000 after
\* simulateWeek returns (after band normalization, buyback, forward and reverse split)
C7_SharesAtLeastFloor ==
    \A id \in DOMAIN stores : \A i \in 1..Len(Companies(id)) :
        Companies(id)[i].sharesOutstanding >= SharesFloor

\* a tick whose band normalization would have taken the share count below the floor
C7_FloorHeldShares ==
    \E k \in Ticks : \E j \in 1..Len(probe.obs[k].tick.adjustments) :
        LET a == probe.obs[k].tick.adjustments[j]
        IN  /\ a.kind = "bandLow"
            /\ RoundDiv(a.sharesBefore, a.r) < SharesFloor
            /\ a.sharesAfter = SharesFloor

\* C8: if isBankrupt is true when simulateWeek is called, the call appends exactly one
\* HistoryPoint, leaves every other field of the company unchanged and consumes no
\* RNG draw
C8_BankruptTickIsFrozen ==
    [][probe'.op = "step" =>
          \A i \in 1..Len(Companies(probe'.id)) :
              Companies(probe'.id)[i].isBankrupt =>
                  /\ [stores'[probe'.id].companies[i]
                         EXCEPT !.history = Companies(probe'.id)[i].history]
                     = Companies(probe'.id)[i]
                  /\ Len(stores'[probe'.id].companies[i].history)
                     = Len(Companies(probe'.id)[i].history) + 1
                  /\ SubSeq(stores'[probe'.id].companies[i].history, 1,
                            Len(Companies(probe'.id)[i].history))
                     = Companies(probe'.id)[i].history
                  /\ probe'.obs[i].rngIn = probe'.obs[i].rngOut]_vars

\* a step that ticked a bankrupt company and, after it, a company that drew from the
\* generator
C8_BankruptTicked ==
    \E k \in Ticks :
        /\ probe.obs[k].tick.bankruptAtCall
        /\ \E n \in Ticks : n > k /\ probe.obs[n].rngIn # probe.obs[n].rngOut

\* price x sharesOutstanding is the same after the adjustment as before it, to 0.1%
CapKept(a) ==
    Abs(MarketCap(a.priceAfter, a.sharesAfter) - MarketCap(a.priceBefore, a.sharesBefore))
    <= MarketCap(a.priceBefore, a.sharesBefore) \div 1000

\* the published factor is the ratio r of the adjustment, 1/r for a share reduction
Published(c, a) ==
    c.pendingSplitFactor = IF a.kind \in {"bandLow", "reverse"} THEN <<1, a.r>> ELSE <<a.r, 1>>

\* C9: whenever a split-like adjustment with ratio r happens in a tick, price x
\* sharesOutstanding is the same immediately after it as immediately before it, and the
\* pendingSplitFactor published for that tick equals the share ratio r (1/r for a
\* share reduction)
C9_SplitsKeepCap ==
    \A k \in Ticks : \A j \in 1..Len(probe.obs[k].tick.adjustments) :
        /\ CapKept(probe.obs[k].tick.adjustments[j])
        /\ Published(Companies(probe.id)[k], probe.obs[k].tick.adjustments[j])

\* C10 as stated: in any tick where a company's cash is negative when the distress step
\* runs, debt is strictly greater after the step and cash is >= 0 after the raise
C10_RaiseCoversShortfall ==
    \A k \in Ticks :
        probe.obs[k].tick.distressRan =>
            /\ probe.obs[k].tick.cashAtDistress < 0
            /\ probe.obs[k].tick.debtAfterRaise > probe.obs[k].tick.debtAtDistress
            /\ probe.obs[k].tick.cashAfterRaise >= 0

\* C10: in any tick where a company's cash is negative when the distress step runs,
\* debt is strictly greater after the step, by the amount added to cash, and cash is
\* >= 0 after the raise unless the raise was capped at 20% of total assets
C10_RaiseCoversShortfallUnlessCapped ==
    \A k \in Ticks :
        probe.obs[k].tick.distressRan =>
            /\ probe.obs[k].tick.cashAtDistress < 0
            /\ probe.obs[k].tick.debtAfterRaise > probe.obs[k].tick.debtAtDistress
            /\ probe.obs[k].tick.debtAfterRaise - probe.obs[k].tick.debtAtDistress
               = probe.obs[k].tick.cashAfterRaise - probe.obs[k].tick.cashAtDistress
            /\ probe.obs[k].tick.raiseCapped \/ probe.obs[k].tick.cashAfterRaise >= 0

\* a tick with an uncapped emergency raise
C10_Raised ==
    \E k \in Ticks :
        /\ probe.obs[k].tick.distressRan
        /\ ~probe.obs[k].tick.raiseCapped
        /\ probe.obs[k].tick.cashAfterRaise >= 0
        /\ probe.obs[k].tick.debtAfterRaise > probe.obs[k].tick.debtAtDistress

\* C11: a company's isBankrupt changes from false to true in a tick only if, at the
\* bankruptcy check of that tick, debtToEquity > 5, negativeQuarterStreak >= 8 and
\* cash < -minCash all hold
C11_BankruptOnlyWhenAllThree ==
    [][probe'.op = "step" =>
          \A i \in 1..Len(Companies(probe'.id)) :
              (~Companies(probe'.id)[i].isBankrupt
               /\ stores'[probe'.id].companies[i].isBankrupt) =>
                  /\ probe'.obs[i].tick.leverageAtCheck > 500
                  /\ probe'.obs[i].tick.streakAtCheck >= 8
                  /\ probe'.obs[i].tick.cashAtCheck
                     < -probe'.obs[i].tick.minCashAtCheck]_vars

\* a tick in which a company went bankrupt, next to one with severe leverage and a
\* long streak that had the cash to stay alive
C11_WentBankrupt ==
    /\ \E k \in Ticks :
           /\ probe.obs[k].tick.becameBankrupt
           /\ Companies(probe.id)[k].isBankrupt
           /\ probe.obs[k].tick.cashAtCheck < -probe.obs[k].tick.minCashAtCheck
    /\ \E k \in Ticks :
           /\ ~probe.obs[k].tick.bankruptAtCall
           /\ ~Companies(probe.id)[k].isBankrupt
           /\ probe.obs[k].tick.leverageAtCheck > 500
           /\ probe.obs[k].tick.streakAtCheck >= 8
           /\ probe.obs[k].tick.cashAtCheck >= -probe.obs[k].tick.minCashAtCheck

\* C12 as stated: at the start of every tick w (the store's week is w - 1) no company's
\* activeEffects holds an entry whose untilWeek is in the past: every entry has
\* untilWeek >= w
C12_NoExpiredEffectAtTickStart ==
    \A id \in DOMAIN stores : \A i \in 1..Len(Companies(id)) :
        \A n \in 1..Len(Companies(id)[i].activeEffects) :
            Companies(id)[i].activeEffects[n].untilWeek >= stores[id].week + 1

\* C12: at the start of every tick w every activeEffects entry of a company that is
\* not bankrupt has untilWeek >= w - 1: the tick of week w - 1 kept the entries it
\* summed, and an entry with untilWeek = w - 1 is dropped by tick w before it is summed
C12_NoEffectOlderThanLastTick ==
    \A id \in DOMAIN stores : \A i \in 1..Len(Companies(id)) :
        ~Companies(id)[i].isBankrupt =>
            \A n \in 1..Len(Companies(id)[i].activeEffects) :
                Companies(id)[i].activeEffects[n].untilWeek >= stores[id].week

\* a tick has returned and left an entry whose untilWeek is the week just simulated
C12_EffectInItsLastWeek ==
    /\ probe.op = "step"
    /\ \E i \in 1..Len(Companies(probe.id)) :
           /\ ~Companies(probe.id)[i].isBankrupt
           /\ \E n \in 1..Len(Companies(probe.id)[i].activeEffects) :
                  Companies(probe.id)[i].activeEffects[n].untilWeek = stores[probe.id].week

\* C13: for every company that is not bankrupt, quarterNetIncomeAcc is 0 when
\* simulateWeek returns from a tick with week % 12 = 0, and on every other tick it is
\* the value before the tick plus that week's net income
C13_QuarterSumResetOnTheBell ==
    [][probe'.op = "step" =>
          \A i \in 1..Len(Companies(probe'.id)) :
              ~Companies(probe'.id)[i].isBankrupt =>
                  stores'[probe'.id].companies[i].quarterNetIncomeAcc
                  = IF stores'[probe'.id].week % 12 = 0
                    THEN 0
                    ELSE Companies(probe'.id)[i].quarterNetIncomeAcc
                         + probe'.obs[i].tick.netIncome]_vars

\* a quarter tick has returned: a company with a week of net income has a zero sum
C13_BellRang ==
    /\ probe.op = "step"
    /\ stores[probe.id].week % 12 = 0
    /\ \E k \in Ticks :
           /\ ~probe.obs[k].tick.bankruptAtCall
           /\ probe.obs[k].tick.netIncome # 0
           /\ Companies(probe.id)[k].quarterNetIncomeAcc = 0

\* the generator as the first company's tick finds it in a step from store st
AfterSectors(st) ==
    Only({SectorsUpdate(st.sectors, mu.market, mu.rng, 1)
          : mu \in {MarketUpdate(st.market, st.rng)}})

\* C14: within every GameStore.step the market is updated before any sector, every
\* sector before any company is simulated, every company is simulated exactly once with
\* the store's new week number, and successive steps use consecutive weeks
C14_StepOrder ==
    [][probe'.op = "step" =>
          /\ stores'[probe'.id].week = stores[probe'.id].week + 1
          /\ stores'[probe'.id].market
             = MarketUpdate(stores[probe'.id].market, stores[probe'.id].rng).market
          /\ stores'[probe'.id].sectors = AfterSectors(stores[probe'.id]).sectors
          /\ Len(probe'.obs) = Len(Companies(probe'.id))
          /\ stores'[probe'.id].rng = probe'.obs[Len(probe'.obs)].rngOut
          /\ \A k \in 1..Len(probe'.obs) :
                 /\ probe'.obs[k].week = stores'[probe'.id].week
                 /\ probe'.obs[k].market = stores'[probe'.id].market
                 /\ probe'.obs[k].sectors = stores'[probe'.id].sectors
                 /\ probe'.obs[k].rngIn
                    = IF k = 1 THEN AfterSectors(stores[probe'.id]).rng
                      ELSE probe'.obs[k - 1].rngOut
                 /\ Len(stores'[probe'.id].companies[k].history)
                    = Len(Companies(probe'.id)[k].history) + 1
                 /\ stores'[probe'.id].companies[k]
                        .history[Len(stores'[probe'.id].companies[k].history)].week
                    = stores'[probe'.id].week]_vars

\* a second step in a row has returned: each company's last two history points carry
\* consecutive weeks, and its tick read the market of the new week
C14_TwoStepsInARow ==
    /\ probe.op = "step"
    /\ probe.steps[probe.id] >= 2
    /\ \A k \in Ticks :
           LET h == Companies(probe.id)[k].history
           IN  /\ h[Len(h)].week = stores[probe.id].week
               /\ h[Len(h) - 1].week = stores[probe.id].week - 1
               /\ probe.obs[k].market.week = stores[probe.id].market.week
    /\ \E k \in Ticks : probe.obs[k].rngIn # probe.obs[k].rngOut

\* C15: for any company state, any non-negative share quantity and either side, one
\* applyTradeImpact call changes the price by a fraction within [-0.06, +0.06] of the
\* price before the call (to the mill)
C15_ImpactWithinSixPercent ==
    probe.op \in {"impact", "buy", "sell"} =>
        /\ probe.trade.priceAfter - probe.trade.priceBefore
           >= Scale(probe.trade.priceBefore, -6000, 100000)
        /\ probe.trade.priceAfter - probe.trade.priceBefore
           <= Scale(probe.trade.priceBefore, 6000, 100000)

\* an order large enough to be capped has moved a price by the full 6%
C15_ImpactAtTheCap ==
    /\ probe.op = "impact"
    /\ probe.trade.shares >= 30 * stores[probe.id].companies[1].sharesOutstanding
    /\ probe.trade.priceBefore > PriceFloor
    /\ Abs(probe.trade.priceAfter - probe.trade.priceBefore)
       >= Scale(probe.trade.priceBefore, 6000, 100000)

\* the orders of a side on a company, each with its |impactPct| in units of 1e-5
Moves(company, side) ==
    {<<q, Abs(ImpactPct(company, q, side))>> : q \in Quantities}

\* C16 as stated: for a fixed company state the magnitude of the fractional price
\* change of applyTradeImpact is strictly increasing in the share quantity
C16_ImpactStrictlyIncreasing ==
    \A id \in DOMAIN stores : \A i \in 1..Len(Companies(id)) : \A side \in Sides :
        \E moves \in {Moves(Companies(id)[i], side)} :
            \A a \in moves : \A b \in moves : a[1] < b[1] => a[2] < b[2]

\* C16: for a fixed company state the magnitude of the fractional price change of
\* applyTradeImpact never decreases with the share quantity, and it is strictly
\* larger for the larger order as long as that order is below the 6% cap
C16_ImpactIncreasingBelowCap ==
    \A id \in DOMAIN stores : \A i \in 1..Len(Companies(id)) : \A side \in Sides :
        \E moves \in {Moves(Companies(id)[i], side)} :
            \A a \in moves : \A b \in moves :
                a[1] < b[1] => a[2] <= b[2] /\ (b[2] < 6000 => a[2] < b[2])

\* an impact has been applied to a company on which two different orders are both
\* capped and two smaller ones are not
C16_TwoOrdersAtTheCap ==
    /\ probe.op = "impact"
    /\ \E moves \in {Moves(stores[probe.id].companies[1], probe.trade.side)} :
           /\ \E a \in moves : \E b \in moves : a[1] < b[1] /\ a[2] = 6000 /\ b[2] = 6000
           /\ \E a \in moves : \E b \in moves : 0 < a[1] /\ a[1] < b[1] /\ b[2] < 6000

\* C17: tnorm(mean, std, lo, hi) with lo <= hi returns a value in [lo, hi]; it makes at
\* most 20 rejection-sampling attempts and, when they are used up, one more draw that
\* it returns clamped to [lo, hi]
C17_TnormInRangeWithinBudget ==
    \A id \in DOMAIN rngs : \A n \in 1..Len(rngs[id].out) :
        /\ rngs[id].args.lo <= rngs[id].out[n]
        /\ rngs[id].out[n] <= rngs[id].args.hi
        /\ rngs[id].tries[n] <= TnormBudget + 1

\* a call that used up its attempts and returned the clamped draw, on an interval that
\* is not a point
C17_BudgetUsedUp ==
    \E id \in DOMAIN rngs : \E n \in 1..Len(rngs[id].out) :
        /\ rngs[id].tries[n] = TnormBudget + 1
        /\ rngs[id].args.lo < rngs[id].args.hi
        /\ rngs[id].out[n] \in {rngs[id].args.lo, rngs[id].args.hi}

\* C18: the RNG's stored state is a single 32-bit word: after any number of random()
\* calls it is an integer in [0, 2^32), no limb above the low 32 bits being set
C18_StateIsOneWord ==
    \A id \in DOMAIN rngs :
        /\ rngs[id].rng.state[1] \in 0..(W16 - 1)
        /\ rngs[id].rng.state[2] \in 0..(W16 - 1)
        /\ rngs[id].rng.state[3] = 0

\* the shares that an order moved into or out of its ledger
Executed(e) ==
    Abs(Held(e.after.ledgers[e.who].holdings, e.ticker)
        - Held(e.before.ledgers[e.who].holdings, e.ticker))

\* an order that was turned down: no ledger and no price has changed
TurnedDown(e) == e.after = e.before

\* an order that went through: the ledger of the one who placed it moved by the
\* executed shares at the price before the impact, and the price of the traded company
\* is the one that a single impact of that many shares makes of it
WentThrough(id, e) ==
    /\ e.index # 0
    /\ Executed(e) > 0
    /\ Held(e.after.ledgers[e.who].holdings, e.ticker)
       - Held(e.before.ledgers[e.who].holdings, e.ticker)
       = IF e.side = "buy" THEN Executed(e) ELSE -Executed(e)
    /\ e.after.ledgers[e.who].cash - e.before.ledgers[e.who].cash
       = (IF e.side = "buy" THEN -1 ELSE 1) * Executed(e) * e.before.prices[e.index]
    /\ \A t \in (DOMAIN e.before.ledgers[e.who].holdings
                 \cup DOMAIN e.after.ledgers[e.who].holdings) \ {e.ticker} :
           /\ t \in DOMAIN e.before.ledgers[e.who].holdings
           /\ t \in DOMAIN e.after.ledgers[e.who].holdings
           /\ e.after.ledgers[e.who].holdings[t] = e.before.ledgers[e.who].holdings[t]
    /\ \A who \in DOMAIN e.before.ledgers \ {e.who} :
           e.after.ledgers[who] = e.before.ledgers[who]
    /\ \A i \in DOMAIN e.before.prices :
           e.after.prices[i]
           = IF i = e.index
             THEN ApplyTradeImpact([Companies(id)[i] EXCEPT !.price = e.before.prices[i]],
                                   Executed(e), e.side).price
             ELSE e.before.prices[i]

\* C19: every buy or sell that changes a ledger (the player's or a competitor's)
\* applies applyTradeImpact exactly once to the traded company, after the ledger
\* update, for the executed whole-share quantity priced at the price before the impact;
\* a rejected buy or sell changes neither a ledger nor a price
C19_OneImpactPerExecutedOrder ==
    \A n \in 1..Len(probe.log) :
        TurnedDown(probe.log[n]) \/ WentThrough(probe.id, probe.log[n])

\* an evaluation has come back with two decisions: the first went through and moved
\* the price, the second was turned down
C19_OneThroughOneTurnedDown ==
    /\ probe.op = "decide"
    /\ Len(probe.log) = 2
    /\ ~TurnedDown(probe.log[1])
    /\ probe.log[1].after.prices # probe.log[1].before.prices
    /\ TurnedDown(probe.log[2])

\* the holding h of company i after a step: rescaled by the factor of a split that
\* happened in this tick, left alone otherwise
Rescaled(h, i) ==
    IF /\ ~probe'.obs[i].tick.bankruptAtCall
       /\ stores'[probe'.id].companies[i].pendingSplitFactor # NoSplit
       /\ h.quantity > 0
    THEN AdjustHolding(h, stores'[probe'.id].companies[i].pendingSplitFactor)
    ELSE h

\* C20: in GameStore.step, when a company's pendingSplitFactor f differs from 1 because
\* a split occurred in that tick, every ledger's holding in that ticker is rescaled
\* exactly once (quantity = floor(quantity * f), avgCostBasis / f), holdings in other
\* companies and all cash are unchanged, and a split is never applied to a holding on
\* more than one tick
C20_SplitRescalesHoldingsOnce ==
    [][probe'.op = "step" =>
          \A who \in Agents \cup {"player"} :
              /\ View(stores'[probe'.id]).ledgers[who].cash
                 = View(stores[probe'.id]).ledgers[who].cash
              /\ DOMAIN View(stores'[probe'.id]).ledgers[who].holdings
                 = DOMAIN View(stores[probe'.id]).ledgers[who].holdings
              /\ \A t \in DOMAIN View(stores[probe'.id]).ledgers[who].holdings :
                     View(stores'[probe'.id]).ledgers[who].holdings[t]
                     = Rescaled(View(stores[probe'.id]).ledgers[who].holdings[t],
                                IndexOf(Companies(probe'.id), t))]_vars


\* C21: requestGeminiDecisions resolves with at most 12 decisions, in the order of
\* the response, each with action BUY or SELL, a trimmed upper-cased ticker and
\* whole non-negative dollars; a reply that is malformed or is not a decisions
\* object resolves with no decisions instead of rejecting.
C21_RequestAlwaysResolvesClean ==
    probe.op = "request" =>
        /\ probe.outcome.status = "resolved"
        /\ Len(probe.outcome.decisions) <= MaxDecisions
        /\ \A k \in 1..Len(probe.outcome.decisions) :
               /\ probe.outcome.decisions[k].action \in {"BUY", "SELL"}
               /\ probe.outcome.decisions[k].dollars >= 0
               /\ \A i \in 1..Len(probe.outcome.decisions[k].ticker) :
                      probe.outcome.decisions[k].ticker[i] \in 0..25 \cup {Blank}
               /\ TrimUpper(probe.outcome.decisions[k].ticker) = probe.outcome.decisions[k].ticker
               /\ k > 1 => probe.outcome.from[k - 1] < probe.outcome.from[k]
        /\ (probe.reply.json.kind # "object" \/ probe.reply.json.decisions.kind # "array")
               => probe.outcome.decisions = <<>>

\* C22: an evaluation that fails, rejects or never completes neither blocks nor skips
\* a tick: every step advances the week by exactly 1 and simulates every company
\* whatever evaluations are in flight, and a failed evaluation leaves every ledger's
\* cash and holdings and every company's price as they were.
C22_EvaluationsNeverHoldTheTick ==
    [][/\ (probe.steps["A"] < probe.budget) => ENABLED Step("A")
       /\ probe'.op = "step" =>
              /\ stores'["A"].week = stores["A"].week + 1
              /\ Len(probe'.obs) = Len(stores["A"].companies)
              /\ \A i \in 1..Len(probe'.obs) : probe'.obs[i].week = stores["A"].week + 1
       /\ probe'.op = "fail" => View(stores'["A"]) = View(stores["A"])]_vars

\* an evaluation failed after a step was taken with evaluations in flight, and another
\* is still in flight
C22_FailedAfterStepOthersInFlight ==
    /\ probe.op = "fail"
    /\ probe.steps["A"] >= 1
    /\ stores["A"].pending # {}

\* C23: from the default market, after any n updates: week is n, interestRate is in
\* [0, 0.2] (in [0, 0.15] after an update without a macro shock), inflation is in
\* [-0.02, 0.15], sentiment in [-1, 1] and vol in [0.006, 0.04].
C23_MarketStaysInRange ==
    /\ stores["M"].week = probe.steps["M"]
    /\ stores["M"].interestRate \in 0..20000
    /\ (probe.op = "update" /\ ~probe.obs[1].shock) => stores["M"].interestRate \in 0..15000
    /\ stores["M"].inflation \in -2000..15000
    /\ stores["M"].sentiment \in -1000..1000
    /\ stores["M"].vol \in 600..4000

\* an update without a shock has brought the rate back from above 0.15 to 0.15, with
\* the sentiment at its upper end
C23_RateBroughtBackUnderTheCap ==
    /\ probe.op = "update"
    /\ ~probe.obs[1].shock
    /\ probe.obs[1].before.interestRate > 15000
    /\ stores["M"].interestRate = 15000
    /\ probe.obs[1].before.sentiment = 1000

\* C24: the derived accessors never throw: pe is null exactly when eps <= 0 and
\* peTTM exactly when ttmEPS <= 0, sharesOutstanding = 0 included, and debtToEquity
\* is finite for any equity, zero and negative included.
C24_AccessorsUseTheSentinel ==
    probe.op = "read" =>
        /\ probe.obs[1].pe = Null <=> probe.obs[1].eps <= 0
        /\ probe.obs[1].peTTM = Null <=> probe.obs[1].ttmEPS <= 0
        /\ probe.obs[1].pe # Null => probe.obs[1].pe \in 0..Huge
        /\ probe.obs[1].peTTM # Null => probe.obs[1].peTTM \in 0..Huge
        /\ stores["A"].companies[1].sharesOutstanding = 0
               => probe.obs[1].pe = Null /\ probe.obs[1].peTTM = Null
        /\ probe.obs[1].debtToEquity \in 0..Huge
        /\ probe.obs[1].ps \in 0..Huge
        /\ probe.obs[1].psTTM \in 0..Huge

\* the accessors read on a company with no shares and no equity
C24_ReadWithNoSharesNoEquity ==
    /\ probe.op = "read"
    /\ stores["A"].companies[1].sharesOutstanding = 0
    /\ probe.obs[1].equity = 0
    /\ probe.obs[1].pe = Null
    /\ probe.obs[1].debtToEquity = Huge

\* C25: right after the price-band normalization of any tick of a company that is not
\* bankrupt, the price lies in [3, 300]: a price below 3 has been brought back to at
\* least 3 and a price above 300 to at most 300.
C25_PriceInBandAfterNormalization ==
    \A k \in Ticks :
        ~probe.obs[k].tick.bankruptAtCall =>
            probe.obs[k].tick.bandPrice \in BandLow..BandHigh

\* a tick that brought a price up from below 3 that does not divide 3
C25_LowPriceBroughtBack ==
    \E k \in Ticks : \E j \in 1..Len(probe.obs[k].tick.adjustments) :
        /\ probe.obs[k].tick.adjustments[j].kind = "bandLow"
        /\ BandLow % probe.obs[k].tick.adjustments[j].priceBefore # 0
        /\ probe.obs[k].tick.bandPrice >= BandLow

\* a tick that brought a price down from above 300
C25_HighPriceBroughtBack ==
    \E k \in Ticks : \E j \in 1..Len(probe.obs[k].tick.adjustments) :
        /\ probe.obs[k].tick.adjustments[j].kind = "bandHigh"
        /\ probe.obs[k].tick.adjustments[j].priceBefore > BandHigh
        /\ probe.obs[k].tick.bandPrice <= BandHigh

\* C26: lowPriceStreak is 0 whenever simulateWeek has returned, for every company and
\* every tick (the streak is measured right after the band normalization, where the
\* price is never below 1), so the quarterly 10-for-1 reverse split, guarded by
\* lowPriceStreak >= 16, is never executed.
C26_LowPriceStreakStaysZero ==
    /\ \A id \in DOMAIN stores : \A i \in 1..Len(Companies(id)) :
           Companies(id)[i].lowPriceStreak = 0
    /\ \A k \in Ticks : \A j \in 1..Len(probe.obs[k].tick.adjustments) :
           probe.obs[k].tick.adjustments[j].kind # "reverse"

\* a tick of a company that is not bankrupt whose price was below 1 dollar before
\* the band
C26_PriceUnderOneDollarBeforeBand ==
    \E k \in Ticks : \E j \in 1..Len(probe.obs[k].tick.adjustments) :
        /\ probe.obs[k].tick.adjustments[j].kind = "bandLow"
        /\ probe.obs[k].tick.adjustments[j].priceBefore < 1000
        /\ ~probe.obs[k].tick.bankruptAtCall
        /\ Companies(probe.id)[k].lowPriceStreak = 0

\* C27: an effect installed by an event during tick w with duration d contributes its
\* drift, multiple and sentiment deltas in exactly the d ticks w + 1 .. w + d of a
\* company that is not bankrupt, in no other tick, and is absent from activeEffects
\* once tick w + d + 1 has returned.  Tick by tick: an entry installed in tick w
\* carries untilWeek = w + d, the deltas used in a tick are those of the entries
\* held from earlier ticks with untilWeek >= w, and the list after the tick is those
\* entries followed by the ones the tick installed.
C27_EffectLivesItsDuration ==
    [][probe'.op = "step" =>
          \A i \in 1..Len(Companies(probe'.id)) :
              ~probe'.obs[i].tick.bankruptAtCall =>
                  /\ \A n \in 1..Len(probe'.obs[i].tick.installed) :
                         /\ probe'.obs[i].tick.installed[n].durationWeeks > 0
                         /\ probe'.obs[i].tick.installed[n].effect.untilWeek
                                = probe'.obs[i].week + probe'.obs[i].tick.installed[n].durationWeeks
                  /\ probe'.obs[i].tick.driftAdj
                         = SumEffects(Companies(probe'.id)[i].activeEffects, "driftDelta",
                                      probe'.obs[i].week, 1)
                  /\ probe'.obs[i].tick.multipleAdj
                         = SumEffects(Companies(probe'.id)[i].activeEffects, "multipleDelta",
                                      probe'.obs[i].week, 1)
                  /\ probe'.obs[i].tick.sentimentAdj
                         = SumEffects(Companies(probe'.id)[i].activeEffects, "sentimentDelta",
                                      probe'.obs[i].week, 1)
                  /\ stores'[probe'.id].companies[i].activeEffects
                         = SelectSeq(Companies(probe'.id)[i].activeEffects,
                                     LAMBDA e : e.untilWeek >= probe'.obs[i].week)
                           \o [n \in 1..Len(probe'.obs[i].tick.installed) |->
                                  probe'.obs[i].tick.installed[n].effect]]_vars

\* a tick used an effect in its last week and installed the next one
C27_LastWeekOfOneFirstOfAnother ==
    /\ probe.op = "step"
    /\ \E i \in 1..Len(Companies(probe.id)) :
           /\ probe.obs[i].tick.multipleAdj # 0
           /\ Len(probe.obs[i].tick.installed) = 1
           /\ Len(Companies(probe.id)[i].activeEffects) = 2
           /\ Companies(probe.id)[i].activeEffects[1].untilWeek = stores[probe.id].week

\* C28: with applyEvent called only by simulateWeek, activeEffects never holds more
\* than 3 entries: entries are added only on quarter-bell ticks (week % 12 = 0), at
\* most one per bell, each with a duration of 12 or 24 weeks.
C28_AtMostThreeEffects ==
    /\ \A id \in DOMAIN stores : \A i \in 1..Len(Companies(id)) :
           Len(Companies(id)[i].activeEffects) <= 3
    /\ \A k \in Ticks :
           /\ Len(probe.obs[k].tick.installed) <= 1
           /\ \A n \in 1..Len(probe.obs[k].tick.installed) :
                  /\ probe.obs[k].week % 12 = 0
                  /\ probe.obs[k].tick.installed[n].durationWeeks \in {12, 24}

\* a quarter bell has left three entries: two of 24 weeks from the two bells before
\* and the one it installed
C28_ThreeEffectsAfterABell ==
    \E k \in Ticks :
        /\ Len(probe.obs[k].tick.installed) = 1
        /\ Len(Companies(probe.id)[k].activeEffects) = 3
        /\ ~Companies(probe.id)[k].isBankrupt

\* C29: negativeQuarterStreak is never negative and changes only in the quarter-bell
\* ticks of a company that is not bankrupt: it goes up by exactly 1 when the quarter's
\* accumulated net income is negative, and otherwise down by 1 but never below 0.
C29_StreakMovesOnlyOnTheBell ==
    [][\A i \in 1..Len(Companies("A")) :
           /\ stores'["A"].companies[i].negativeQuarterStreak >= 0
           /\ stores'["A"].companies[i].negativeQuarterStreak
                 = IF probe'.op = "step" /\ ~Companies("A")[i].isBankrupt
                      /\ stores'["A"].week % 12 = 0
                   THEN IF Companies("A")[i].quarterNetIncomeAcc
                           + probe'.obs[i].tick.netIncome < 0
                        THEN Companies("A")[i].negativeQuarterStreak + 1
                        ELSE Max(0, Companies("A")[i].negativeQuarterStreak - 1)
                   ELSE Companies("A")[i].negativeQuarterStreak]_vars

\* a quarter bell after a quarter without a loss has taken one company's streak down
\* by one and left the other's at 0
C29_StreakDownAndStreakAtZero ==
    /\ probe.op = "step"
    /\ stores["A"].week % 12 = 0
    /\ \E k \in Ticks :
           /\ probe.obs[k].tick.streakAtBell >= 1
           /\ Companies("A")[k].negativeQuarterStreak = probe.obs[k].tick.streakAtBell - 1
    /\ \E k \in Ticks :
           /\ probe.obs[k].tick.streakAtBell = 0
           /\ Companies("A")[k].negativeQuarterStreak = 0

\* C30: no company can become bankrupt before tick 96: with the weeks numbered 1, 2,
\* ... and negativeQuarterStreak starting at 0, isBankrupt is false after every tick
\* w < 96.
C30_NoBankruptcyBeforeWeek96 ==
    \A id \in DOMAIN stores : \A i \in 1..Len(Companies(id)) :
        stores[id].week < 96 => ~Companies(id)[i].isBankrupt

\* a tick before week 96 has found a company with severe leverage and its cash below
\* -minCash, and left it trading
C30_DistressedBeforeWeek96 ==
    /\ stores["A"].week < 96
    /\ \E k \in Ticks :
           /\ probe.obs[k].tick.leverageAtCheck > 500
           /\ probe.obs[k].tick.cashAtCheck < -probe.obs[k].tick.minCashAtCheck
           /\ probe.obs[k].tick.streakAtCheck < 8
           /\ ~Companies("A")[k].isBankrupt

\* C31: a company becomes bankrupt only in a tick in which the emergency debt raise also
\* ran: if isBankrupt turns true in a tick, cash was negative at the distress step of
\* that tick, debt went up in that tick, and the raise was limited by the cap of 20% of
\* total assets.
C31_BankruptOnlyAfterCappedRaise ==
    [][\A i \in 1..Len(Companies("A")) :
           (stores'["A"].companies[i].isBankrupt /\ ~Companies("A")[i].isBankrupt)
           => /\ probe'.op = "step"
              /\ probe'.obs[i].tick.distressRan
              /\ probe'.obs[i].tick.cashAtDistress < 0
              /\ probe'.obs[i].tick.debtAfterRaise > probe'.obs[i].tick.debtAtDistress
              /\ stores'["A"].companies[i].debt > Companies("A")[i].debt
              /\ probe'.obs[i].tick.raiseCapped]_vars

\* a tick has wound a company up after a capped raise that left its cash below -minCash
C31_WoundUpAfterCappedRaise ==
    \E k \in Ticks :
        /\ probe.obs[k].tick.becameBankrupt
        /\ Companies("A")[k].isBankrupt
        /\ probe.obs[k].tick.distressRan
        /\ probe.obs[k].tick.raiseCapped
        /\ probe.obs[k].tick.cashAfterRaise < -probe.obs[k].tick.minCashAtCheck

\* the events of one kind that a tick record lists
Emitted(tick, kind) == {e \in 1..Len(tick.events) : tick.events[e] = kind}

\* C32: a quarterly buyback executes only when price < 0.9 x fundamental value, cash >
\* 1.5 x the liquidity buffer (0.1 * revenue * 48 / 12, at least 0) and buybackRate > 0;
\* when it executes it takes at most 5% of the pre-buyback share count off
\* sharesOutstanding and leaves cash at or above the liquidity buffer; when it does not
\* execute, shares and cash are as they were.
C32_BuybackOnlyWhenCheapAndCashy ==
    \A k \in Ticks : \A n \in 1..Len(probe.obs[k].tick.buyback) :
        LET b == probe.obs[k].tick.buyback[n]
            buffer == Max(0, Scale(b.revenue, 4, 10))
        IN  IF Emitted(probe.obs[k].tick, "buyback") # {}
            THEN /\ Cardinality(Emitted(probe.obs[k].tick, "buyback")) = 1
                 /\ stores["A"].week % 12 = 0
                 /\ b.fundamental > 0
                 /\ 10 * b.price < 9 * b.fundamental
                 /\ 2 * b.cash > 3 * buffer
                 /\ b.buybackRate > 0
                 /\ 20 * (b.shares - b.sharesAfter) <= b.shares
                 /\ b.cashAfter >= buffer
                 /\ b.cashAfter < b.cash
            ELSE b.sharesAfter = b.shares /\ b.cashAfter = b.cash

\* a bell has bought back the full 5% of one company's shares and left another company,
\* which was not cheap, alone
C32_BoughtBackFivePercent ==
    /\ \E k \in Ticks : \E n \in 1..Len(probe.obs[k].tick.buyback) :
           /\ Emitted(probe.obs[k].tick, "buyback") # {}
           /\ probe.obs[k].tick.buyback[n].sharesAfter < probe.obs[k].tick.buyback[n].shares
           /\ probe.obs[k].tick.buyback[n].sharesAfter
                  = probe.obs[k].tick.buyback[n].shares
                    - Scale(probe.obs[k].tick.buyback[n].shares, 5, 100)
    /\ \E k \in Ticks : \E n \in 1..Len(probe.obs[k].tick.buyback) :
           Emitted(probe.obs[k].tick, "buyback") = {}

\* C33: a company's debt never decreases: debt after a tick is >= debt before it, and it
\* is strictly greater exactly in the ticks where the emergency debt raise ran; buys and
\* sells leave it alone.
C33_DebtNeverDecreases ==
    [][\A i \in 1..Len(Companies("A")) :
           /\ stores'["A"].companies[i].debt >= Companies("A")[i].debt
           /\ (stores'["A"].companies[i].debt > Companies("A")[i].debt)
              <=> (probe'.op = "step" /\ probe'.obs[i].tick.distressRan)]_vars

\* a step has raised the debt of one company, which had negative cash, and left the debt
\* of the other, which had none, where the week before had left it
C33_DebtUpForOneOnly ==
    /\ \E k \in Ticks :
           /\ probe.obs[k].tick.distressRan
           /\ Len(Companies("A")[k].history) >= 2
           /\ Companies("A")[k].debt
                  > Companies("A")[k].history[Len(Companies("A")[k].history) - 1].debt
    /\ \E k \in Ticks :
           /\ ~probe.obs[k].tick.distressRan
           /\ ~probe.obs[k].tick.bankruptAtCall
           /\ Len(Companies("A")[k].history) >= 2
           /\ Companies("A")[k].debt
                  = Companies("A")[k].history[Len(Companies("A")[k].history) - 1].debt

\* C34: applyTradeImpact mutates only the company's price and draws no randomness: a buy
\* never lowers the price, a sell never raises it, a quantity of 0 leaves the price
\* unchanged, and every other field of the company (shares, cash, debt, history,
\* pendingSplitFactor, isBankrupt) and of the store is unchanged.
C34_ImpactTouchesOnlyThePrice ==
    [][probe'.op = "impact" =>
          /\ [stores'["A"].companies[1] EXCEPT !.price = stores["A"].companies[1].price]
                 = stores["A"].companies[1]
          /\ stores' = [stores EXCEPT !["A"].companies[1].price =
                                          stores'["A"].companies[1].price]
          /\ rngs' = rngs
          /\ probe'.trade.side = "buy"
                 => stores'["A"].companies[1].price >= stores["A"].companies[1].price
          /\ probe'.trade.side = "sell"
                 => stores'["A"].companies[1].price <= stores["A"].companies[1].price
          /\ probe'.trade.shares = 0
                 => stores'["A"].companies[1].price = stores["A"].companies[1].price]_vars

\* a sell of a positive quantity has lowered a price that an earlier impact had moved
C34_SellLoweredThePrice ==
    /\ probe.op = "impact"
    /\ probe.trades >= 2
    /\ probe.trade.side = "sell"
    /\ probe.trade.shares > 0
    /\ probe.trade.priceAfter < probe.trade.priceBefore
    /\ stores["A"].companies[1].price = probe.trade.priceAfter

\* C35: for any interleaving of steps, player buys and sells and the completions of the
\* competitors' evaluations, every ledger's cash (the player's and each competitor's)
\* stays >= 0 and every held quantity >= 0; every order that changes a ledger moves a
\* positive whole number of shares, into the ledger for a buy and out of it for a sell,
\* and a sell moves out no more than the ledger held.
C35_LedgersStaySolvent ==
    /\ \A who \in DOMAIN View(stores["A"]).ledgers :
           /\ View(stores["A"]).ledgers[who].cash >= 0
           /\ \A t \in DOMAIN View(stores["A"]).ledgers[who].holdings :
                  View(stores["A"]).ledgers[who].holdings[t].quantity \in Nat
    /\ \A n \in 1..Len(probe.log) :
           \/ TurnedDown(probe.log[n])
           \/ /\ Executed(probe.log[n]) \in Nat \ {0}
              /\ Held(probe.log[n].after.ledgers[probe.log[n].who].holdings,
                      probe.log[n].ticker)
                 = Held(probe.log[n].before.ledgers[probe.log[n].who].holdings,
                        probe.log[n].ticker)
                   + (IF probe.log[n].side = "buy" THEN 1 ELSE -1) * Executed(probe.log[n])
              /\ probe.log[n].side = "sell"
                     => Executed(probe.log[n])
                        <= Held(probe.log[n].before.ledgers[probe.log[n].who].holdings,
                                probe.log[n].ticker)
              /\ probe.log[n].after.ledgers[probe.log[n].who].cash >= 0

\* an evaluation has come back after a step with a buy and then a sell for more than
\* the ledger held: the buy went through and the sell was cut to the holding, which it
\* emptied
C35_SellCutToTheHolding ==
    /\ probe.op = "decide"
    /\ probe.steps["A"] >= 1
    /\ \E n \in 1..Len(probe.log) :
           /\ probe.log[n].side = "buy"
           /\ Executed(probe.log[n]) > 0
    /\ \E n \in 1..Len(probe.log) :
           /\ probe.log[n].side = "sell"
           /\ Executed(probe.log[n]) > 0
           /\ Executed(probe.log[n]) * probe.log[n].before.prices[probe.log[n].index]
                  < AllIn * 1000 - probe.log[n].before.prices[probe.log[n].index]
           /\ Held(probe.log[n].after.ledgers[probe.log[n].who].holdings,
                   probe.log[n].ticker) = 0

\* C36: every entry in a holdings map (the player's or a competitor's) has quantity > 0
\* after any sequence of buys, sells, steps and competitors' trades: a position whose
\* quantity reaches 0 is removed from the map.
C36_NoEmptyPositions ==
    \A who \in DOMAIN View(stores["A"]).ledgers :
        \A t \in DOMAIN View(stores["A"]).ledgers[who].holdings :
            View(stores["A"]).ledgers[who].holdings[t].quantity > 0

\* the evaluations of competitor a that are in flight
InFlight(st, a) == {p \in st.pending : p.agent = a}

\* C37: after a game has started, each competitor's yearly evaluation is launched
\* exactly at each step where the number of weeks elapsed since the game started is a
\* positive multiple of 48: once per competitor at every such boundary, and at no
\* other step.
C37_OneLaunchPerAgentPerYear ==
    [][probe'.op = "step" =>
          IF /\ stores'["A"].gameStarted
             /\ ElapsedWeeks(stores'["A"]) > 0
             /\ ElapsedWeeks(stores'["A"]) % 48 = 0
          THEN \A a \in Agents :
                   Cardinality(InFlight(stores'["A"], a) \ InFlight(stores["A"], a)) = 1
          ELSE stores'["A"].pending = stores["A"].pending]_vars

\* C38: for each competitor at most one evaluation is in flight at any time, and the
\* competitor's deciding flag is true exactly while an evaluation is in flight, for any
\* interleaving of step, startNewGame and evaluation completions.
C38_OneEvaluationInFlight ==
    \A a \in Agents :
        /\ Cardinality(InFlight(stores["A"], a)) <= 1
        /\ stores["A"].agents[a].deciding <=> InFlight(stores["A"], a) # {}

\* C39: at most one interval timer drives step at any time: after any sequence of start,
\* stop and setSpeed calls a timer is set iff the last of start and stop was start, and
\* it is the one the timer field names, with a period in [80, 5000] ms; start while
\* running sets no second timer; setSpeed clamps the period to [80, 5000] ms and replaces
\* the timer by one of the new period only if one was running.
C39_OneTimerDrivesStep ==
    [][/\ Cardinality(stores'["T"].intervals) <= 1
       /\ stores'["T"].intervals # {} <=> stores'["T"].asked = "start"
       /\ \A i \in stores'["T"].intervals :
              /\ i.handle = stores'["T"].timer
              /\ i.period \in SpeedLow..SpeedHigh
       /\ stores'["T"].intervals = {} <=> stores'["T"].timer = Null
       /\ (probe'.op = "start" /\ stores["T"].intervals # {})
              => stores'["T"].intervals = stores["T"].intervals
       /\ probe'.op = "setSpeed"
              => /\ stores'["T"].speedMs = Clamp(stores'["T"].ms, SpeedLow, SpeedHigh)
                 /\ IF stores["T"].intervals = {}
                    THEN stores'["T"].intervals = {}
                    ELSE /\ stores'["T"].intervals \cap stores["T"].intervals = {}
                         /\ \A i \in stores'["T"].intervals :
                                i.period = stores'["T"].speedMs
       /\ probe'.op = "step" => stores["T"].intervals # {} /\ stores'["T"] = stores["T"]]_vars

\* the speed was set above the range while the timer was running: the timer that
\* drives step now is a new one with a period of 5000 ms, and it has fired
C39_RestartedAtTheSlowestSpeed ==
    /\ probe.op = "step"
    /\ stores["T"].ms > SpeedHigh
    /\ stores["T"].handles >= 2
    /\ \E i \in stores["T"].intervals :
           i.handle = stores["T"].handles /\ i.period = SpeedHigh
====
